---- MODULE Spec2Model ----
(***************************************************************************)
(* The chat-completion request path of the LLM API gateway:                *)
(*   llm_gateway_core/api/v1/chat.py            chat_completions           *)
(*   llm_gateway_core/services/request_handler.py  make_llm_request        *)
(*   llm_gateway_core/db/model_rotation_db.py   get_next_model_index       *)
(*                                                                         *)
(* One request is followed from its arrival to the end of its response.    *)
(* The handler is a coroutine: the model has one action per stretch of     *)
(* code between two suspension points (the upstream POST, every chunk read *)
(* of an upstream stream, the retry sleep) and one per entry of the        *)
(* candidate loop.  The fields of a rule element are read when the loop    *)
(* reaches the element; the list is not written during the request, so     *)
(* drawing them at that moment is the same as drawing the list up front.   *)
(***************************************************************************)
EXTENDS Integers, Sequences, FiniteSets, TLC

\* ----------------------------------------------------------------- bounds
MaxCandidates == 2      \* longest fallback_models list
MaxRetry == 1           \* largest configured retry_count
MaxSubs == 2            \* longest providers_order list
MaxChunks == 2          \* chunks one upstream stream delivers
MaxRequests == 3        \* requests one caller makes for one gateway model
MaxTokens == 2          \* the largest counter of a usage object

\* ------------------------------------------------------ values and inputs
None == "None"                       \* Python None among strings
Absent == {}                         \* an Optional[...] field left out
Some(x) == {x}
Get(o) == CHOOSE x \in o : TRUE

Max(a, b) == IF a >= b THEN a ELSE b

\* FallbackModelRule.retry_count: Optional[int]
RetryCounts == {Absent} \cup {Some(r) : r \in -1..MaxRetry}
\* FallbackModelRule.retry_delay: Optional[int]
RetryDelays == {Absent} \cup {Some(d) : d \in {-1, 0, 1, 119, 120}}
\* FallbackModelRule.providers_order: Optional[List[str]]
ProvidersOrders == {Absent} \cup {Some([i \in 1..k |-> i]) : k \in 0..MaxSubs}

\* FallbackModelRule.custom_body_params: {} or {"temperature": "t1"}
CustomBodyParams == {Absent, Some("t1")}
\* FallbackModelRule.custom_headers: {} or {"X-Custom": "h1"}
CustomHeaders == {Absent, Some("h1")}

\* The rule elements the loader accepts (every field but provider and model
\* is optional or defaulted, and no range is validated).  The fields are
\* read by independent statements, so the elements drawn vary the retry
\* fields with no sub-provider list, or the sub-provider fields with no
\* retry or with MaxRetry undelayed retries, or the custom fields (both or
\* none) with no retry and no or the longest sub-provider list; a field that
\* is never read (retry_delay unless retry_count > 0, the fallback flag
\* without a list, everything when the provider is not in the providers
\* map) keeps its default.  model "x" is the element's own model name.
FallbackModelRule ==
    { c \in [ provider_known : BOOLEAN,
              model : {"x"},
              retry_count : RetryCounts,
              retry_delay : RetryDelays,
              providers_order : ProvidersOrders,
              use_provider_order_as_fallback : BOOLEAN,
              custom_body_params : CustomBodyParams,
              custom_headers : CustomHeaders ] :
        /\ (c.custom_body_params # Absent <=> c.custom_headers # Absent)
        /\ (c.custom_body_params # Absent =>
               /\ c.provider_known
               /\ c.retry_count = Absent
               /\ c.providers_order
                      \in {Absent, Some([i \in 1..MaxSubs |-> i])})
        /\ (c.retry_delay # Absent =>
               c.retry_count # Absent /\ Get(c.retry_count) > 0)
        /\ (c.providers_order = Absent => ~c.use_provider_order_as_fallback)
        /\ (c.providers_order # Absent =>
               \/ c.retry_count = Absent
               \/ c.retry_count = Some(MaxRetry) /\ c.retry_delay = Some(0))
        /\ (~c.provider_known =>
               /\ c.retry_count = Absent
               /\ c.providers_order = Absent) }

\* The element chat_completions builds when the model has no rule:
\* {"provider": settings.fallback_provider, "model": requested_model}.
\* settings.fallback_provider is None when FALLBACK_PROVIDER is not set;
\* model "m" is the model name of the request.
SyntheticFallbackRule ==
    { [ provider_known |-> k,
        model |-> "m",
        retry_count |-> Absent,
        retry_delay |-> Absent,
        providers_order |-> Absent,
        use_provider_order_as_fallback |-> FALSE,
        custom_body_params |-> Absent,
        custom_headers |-> Absent ] : k \in BOOLEAN }

NoRule ==
    [ provider_known |-> FALSE, model |-> "m", retry_count |-> Absent,
      retry_delay |-> Absent, providers_order |-> Absent,
      use_provider_order_as_fallback |-> FALSE,
      custom_body_params |-> Absent, custom_headers |-> Absent ]

\* request_body_json as the client sent it: its model and messages, and
\* none of the keys a rule element may add
RequestBody ==
    [ model |-> "m", messages |-> "messages", provider |-> Absent,
      allow_fallbacks |-> Absent, temperature |-> Absent ]

\* What an upstream answers to a buffered POST.  status 0 stands for
\* httpx.RequestError; valid says whether the body parses as JSON; keys are
\* the top-level keys of the parsed object; text is the body text of an HTTP
\* error, or what error.message / detail evaluate to.
UpstreamResponses ==
    { [status |-> 0,   valid |-> FALSE, keys |-> {},          text |-> "e1"],
      [status |-> 500, valid |-> FALSE, keys |-> {},          text |-> "e2"],
      [status |-> 200, valid |-> FALSE, keys |-> {},          text |-> "e1"],
      [status |-> 200, valid |-> TRUE,  keys |-> {"error"},   text |-> "e1"],
      [status |-> 200, valid |-> TRUE,  keys |-> {"detail"},  text |-> "e2"],
      [status |-> 200, valid |-> TRUE,  keys |-> {"error"},   text |-> None],
      [status |-> 200, valid |-> TRUE,  keys |-> {"choices"}, text |-> None],
      [status |-> 200, valid |-> TRUE,  keys |-> {},          text |-> None] }

\* How client.stream(...) answers: status 0 stands for httpx.RequestError.
StreamOpenings ==
    { [status |-> 0,   text |-> "e1"],
      [status |-> 500, text |-> "e2"],
      [status |-> 200, text |-> None] }

\* One segment of a chunk split on "\n\n": real says it starts with
\* "data: {", valid that the JSON after "data: " parses, keys are the
\* top-level keys of that JSON, text is the raw segment.
Segments ==
    { [real |-> FALSE, valid |-> FALSE, keys |-> {},                   text |-> None],
      [real |-> TRUE,  valid |-> FALSE, keys |-> {},                   text |-> None],
      [real |-> TRUE,  valid |-> TRUE,  keys |-> {"choices"},          text |-> None],
      [real |-> TRUE,  valid |-> TRUE,  keys |-> {"choices", "usage"}, text |-> None],
      [real |-> TRUE,  valid |-> TRUE,  keys |-> {"error"},            text |-> "e2"],
      [real |-> TRUE,  valid |-> TRUE,  keys |-> {"detail"},           text |-> "e2"],
      [real |-> TRUE,  valid |-> TRUE,  keys |-> {"code", "error"},    text |-> "e2"] }

\* One chunk of response.aiter_bytes(): empty bytes, bytes that are not
\* UTF-8, or up to two segments (none: only blank lines); a second segment
\* follows a comment, a good event or an unparsable one.
Chunks ==
    { [empty |-> TRUE,  utf8 |-> TRUE,  segs |-> <<>>],
      [empty |-> FALSE, utf8 |-> FALSE, segs |-> <<>>] }
    \cup { [empty |-> FALSE, utf8 |-> TRUE, segs |-> s] :
             s \in {<<>>} \cup { <<a>> : a \in Segments }
                          \cup { <<a, b>> : a \in { x \in Segments :
                                                       x.keys \subseteq {"choices"} },
                                            b \in Segments } }

\* ---------------------------------------------------------------- state
VARIABLES
    pc,                         \* where the handler is
    status,                     \* HTTP status of the response, 0 while none
    is_streaming,               \* request_body_json.get("stream", False)
    model_fallbacks_sequence,   \* candidates after the rotation reorder
    rule_found,                 \* fallback_rules.get(requested_model) was set
    rotation_db,                \* what the request wrote to its model_rotation row
    cand,                       \* position of the for loop in the sequence
    model_fallback_rule,        \* the element the for loop is at
    retry_count,                \* the loop variable retry_count
    sub,                        \* position in providers_order, 0 in list mode
    attempts,                   \* upstream requests made for this element
    request_body_json,          \* the parsed body of the request
    last_error_detail,          \* the local last_error_detail
    last_failed,                \* what the upstream did in the latest failed attempt
    opened,                     \* the upstream stream answered 2xx
    looking_first_chunk,        \* make_llm_request locals
    error_in_stream,
    error_detail,
    first_content_chunk_candidate,
    tokens_usage,               \* combined_generator's local tokens_usage
    received,                   \* chunks read from the current upstream
    first_real_idx,             \* index of the chunk with the first real event
    first_event,                \* what the first real event of the upstream was
    delivered,                  \* bytes written to the client
    relay_result,               \* how the response generator ended
    model_rotation,             \* the model_rotation row of the caller's key
    rot_log,                    \* per request of the caller: list length, start index
    proc,                       \* the server process: "boot", "up", "exited"
    fallback_provider,          \* settings.fallback_provider
    providers_config,           \* ConfigLoader.providers_config
    fallback_rules,             \* ConfigLoader.fallback_rules
    request_config,             \* the request's locals providers_config, fallback_rules
    requested_model,            \* request_body_json.get("model")
    provider_config,            \* the request's local provider_config
    reloads,                    \* reload calls made so far
    reload_result,              \* which reload ran last and what it returned
    tap_thread,                 \* the response's ChunkProcessorThread
    tap_queue,                  \* ChunkProcessorThread.queue
    tap_tokens_usage,           \* ChunkProcessorThread.tokens_usage
    records,                    \* the log files write_log wrote for the request
    st_table,                   \* the committed rows of table model_rotation
    st_lock,                    \* the caller whose write transaction is open, or 0
    st_call,                    \* per caller: where its get_next_model_index is
    st_log,                     \* the calls that returned, in order
    rules_file,                 \* models_fallback_rules.json on disk
    providers_file,             \* providers.json on disk
    edit,                       \* the last answer of the configuration editor
    client,                     \* the connection of the request's client
    undecodable,                \* positions in received of the chunks that are not UTF-8
    answer,                     \* what the upstream answered to the buffered POST that just returned
    usage_call,                 \* the last call of get_token_usage: its argument and what it returned
    rotation_use                \* the last request's rule and whether it called get_next_model_index

ctl == <<pc, status, cand, retry_count, sub, attempts, request_body_json>>
req == <<is_streaming, model_fallbacks_sequence, rule_found, rotation_db>>
errs == <<last_error_detail, last_failed>>
relay == <<opened, looking_first_chunk, error_in_stream, error_detail,
           first_content_chunk_candidate, tokens_usage, received,
           first_real_idx, first_event, delivered, relay_result>>
store == <<model_rotation, rot_log>>
cfg == <<proc, fallback_provider, providers_config, fallback_rules,
         request_config, requested_model, provider_config, reloads,
         reload_result>>
tap == <<tap_thread, tap_queue, tap_tokens_usage, records>>
rs == <<st_table, st_lock, st_call, st_log>>
ed == <<rules_file, providers_file, edit>>
seen == <<undecodable, answer, usage_call>>
obs == <<seen, rotation_use>>
ext == <<rs, ed, client, obs>>
aux == <<store, cfg, tap, ext>>
vars == <<ctl, req, model_fallback_rule, errs, relay, aux>>

NoDetail == "No providers were attempted."
NoFailure == [cause |-> "none", detail |-> NoDetail]

\* ------------------------------------------------------- configuration
\* Dict[str, ProviderDetails]: provider name -> baseUrl
NoProviders == [p \in {} |-> "u1"]

\* Dict[str, Dict]: gateway model -> {"fallback_models", "rotate_models"}
NoRules == [g \in {} |-> [fallback_models |-> <<>>, rotate_models |-> FALSE]]

\* ------------------------------------------------------------ chat log
\* A tokens_usage dictionary: the keys it has, and whether its values were
\* taken from a usage object (they are the zeros it was made with if not).
\* ChunkProcessorThread.__init__ and _init_tokens_and_response:
InitTokens ==
    [ keys |-> {"prompt_tokens", "completion_tokens", "total_tokens",
                "reasoning_tokens", "cached_tokens", "cost"},
      from_usage |-> FALSE ]

\* ------------------------------------------------------ rotation table
\* the (api_key, gateway_model) pairs calls are made for
StKeys == {"k1", "k2"}

\* the callers of get_next_model_index that share the database file: each
\* call opens a connection of its own to it
Callers == {1, 2}

\* a caller that is not in get_next_model_index
IdleCall == [pc |-> "idle", key |-> "k1", n |-> 0, row |-> Absent, next |-> 0]

\* no request has come to the rotation step yet
NoUse == [kind |-> "none", rotate_models |-> FALSE, n |-> 0, called |-> FALSE]

\* get_token_usage was not called yet
NoUsageCall == <<>>

\* no buffered POST has just returned
NoAnswer == [status |-> -1, valid |-> FALSE, keys |-> {}, text |-> None]

\* ------------------------------------------------- configuration editor
\* a file that does not exist
NoRulesFile == [kind |-> "missing", rules |-> NoRules]
NoProvidersFile == [kind |-> "missing", providers |-> NoProviders]

\* no request was made to the editor yet
NoEdit == [op |-> "none", body |-> "none", status |-> 0, wrote |-> FALSE,
           reloaded |-> FALSE]

\* ---------------------------------------------------------- rotation
\* What SELECT last_model_index finds for the request's (api_key, model):
\* no row, or the index an earlier request left there.
StoredRows == {Absent} \cup {Some(i) : i \in 0..(MaxCandidates - 1)}

\* (fault) the stored index is returned and written back unchanged
get_next_model_index_stuck(row, total_models, db_ok) ==
    IF total_models <= 0 \/ ~db_ok THEN <<0, Absent>>
    ELSE IF row = Absent THEN <<0, Some(0)>>
    ELSE <<Get(row) % total_models, Some(Get(row) % total_models)>>

\* (fault) the write of a call in which sqlite raised is not rolled back
get_next_model_index_no_rollback(row, total_models, db_ok) ==
    IF total_models <= 0 THEN <<0, Absent>>
    ELSE IF row = Absent THEN <<0, Some(0)>>
    ELSE LET next_index == (Get(row) + 1) % total_models
         IN  <<IF db_ok THEN next_index ELSE 0, Some(next_index)>>

\* ModelRotationDB.get_next_model_index: <<returned index, index written>>;
\* nothing is written when total_models <= 0 or when sqlite raises (rollback)
get_next_model_index(row, total_models, db_ok) ==
    IF total_models <= 0 THEN <<0, Absent>>
    ELSE IF ~db_ok THEN <<0, Absent>>
    ELSE IF row = Absent THEN <<0, Some(0)>>
    ELSE LET next_index == (Get(row) + 1) % total_models
         IN  <<next_index, Some(next_index)>>

\* model_fallbacks_sequence[start_index:] + model_fallbacks_sequence[:start_index]
Reordered(seq, start_index) ==
    SubSeq(seq, start_index + 1, Len(seq)) \o SubSeq(seq, 1, start_index)

\* ------------------------------------------------------ rule element reads
\* model_fallback_rule.get("retry_count") or 0
RetryCountOrZero(rule) ==
    IF rule.retry_count = Absent THEN 0 ELSE Get(rule.retry_count)

\* the branch condition of "Case 1": list mode
ListMode(rule) ==
    \/ rule.providers_order = Absent
    \/ Len(Get(rule.providers_order)) <= 0
    \/ rule.use_provider_order_as_fallback = FALSE

SubOrder(rule) == IF ListMode(rule) THEN <<>> ELSE Get(rule.providers_order)

\* (fault) a delay of 120 seconds is slept too
SleepDecision_inclusive(left, rule) ==
    IF left > 0
    THEN IF rule.retry_delay = Absent THEN "TypeError"
         ELSE IF Get(rule.retry_delay) > 0 /\ Get(rule.retry_delay) <= 120
              THEN "sleep" ELSE "no_sleep"
    ELSE "no_sleep"

\* retry_count > 0 and retry_delay>0 and retry_delay<120; "TypeError" when
\* the comparison is made on None
SleepDecision(left, rule) ==
    IF left > 0
    THEN IF rule.retry_delay = Absent THEN "TypeError"
         ELSE IF Get(rule.retry_delay) > 0 /\ Get(rule.retry_delay) < 120
              THEN "sleep" ELSE "no_sleep"
    ELSE "no_sleep"

\* ------------------------------------------------------- control steps
\* the payload dictionary of an attempt as it is now: the failure branches
\* print the dictionary itself, the list-mode branch after it replaced the
\* messages in it (chat.py 148-152, 180-183)
PayloadObject(a) ==
    IF a.res = "fail" THEN a.logged[Len(a.logged)] ELSE a.payload

\* (fault) the payload is the body itself, not a copy of it
AfterAssignments_shared(body, payload) == payload

\* payload = copy.deepcopy(request_body_json): the body once the keys of
\* the payload were assigned (chat.py 132, 162)
AfterAssignments(body, payload) == body

\* request_body_json after the attempts of the log
BodyAt(atts) ==
    IF atts = <<>> THEN request_body_json
    ELSE AfterAssignments(request_body_json, PayloadObject(atts[Len(atts)]))

Goto(p, st, c, left, s, atts) ==
    /\ pc' = p
    /\ status' = st
    /\ cand' = c
    /\ retry_count' = left
    /\ sub' = s
    /\ attempts' = atts
    /\ request_body_json' = BodyAt(atts)

RelayInit ==
    /\ opened' = FALSE
    /\ looking_first_chunk' = TRUE
    /\ error_in_stream' = FALSE
    /\ error_detail' = None
    /\ first_content_chunk_candidate' = 0
    /\ tokens_usage' = "unbound"
    /\ received' = <<>>
    /\ first_real_idx' = 0
    /\ first_event' = "none"
    /\ delivered' = <<>>
    /\ relay_result' = "none"

\* payload_to_log["messages"] = "<REMOVED>"
Redacted(payload) == [payload EXCEPT !.messages = "<REMOVED>"]

\* (fault) every request of the sub-provider loop carries the whole list
Payload_whole_list(body, rule, s) ==
    IF rule.providers_order # Absent /\ Len(Get(rule.providers_order)) > 0
    THEN [ body EXCEPT !.model = rule.model,
                       !.provider = Some([order |-> Get(rule.providers_order)]),
                       !.allow_fallbacks = Some(FALSE) ]
    ELSE [ body EXCEPT !.model = rule.model ]

\* the payload of the request for sub-provider s (0: the whole candidate):
\* a copy of the request body with "model" replaced and with "provider" and
\* "allow_fallbacks" assigned or not (chat.py 132-137, 162-167); the payload
\* built before the while loop, the one custom_body_params is written to
\* (chat.py 114-119), is replaced by this one before any request is made
Payload(body, rule, s) ==
    IF s = 0
    THEN IF rule.providers_order # Absent /\ Len(Get(rule.providers_order)) > 0
         THEN [ body EXCEPT !.model = rule.model,
                            !.provider = Some([order |-> Get(rule.providers_order)]),
                            !.allow_fallbacks = Some(FALSE) ]
         ELSE [ body EXCEPT !.model = rule.model ]
    ELSE [ body EXCEPT !.model = rule.model,
                       !.provider = Some([order |-> <<Get(rule.providers_order)[s]>>]),
                       !.allow_fallbacks = Some(FALSE) ]

\* the headers of every request made for an element: the fixed ones with
\* custom_headers written over them (chat.py 105-123)
Headers(rule) == [ fixed |-> "fixed", custom |-> rule.custom_headers ]

\* await make_llm_request(...) for sub-provider s (0: the whole candidate);
\* make_llm_request begins by logging the payload (request_handler.py 16-18)
StartAttempt(left, s, rule, atts) ==
    Goto("attempt", status, cand, left, s,
         Append(atts, [ left |-> left, sub |-> s, res |-> "pending",
                        headers |-> Headers(rule),
                        payload |-> Payload(BodyAt(atts), rule, s),
                        logged |-> <<Redacted(Payload(BodyAt(atts), rule, s))>> ]))

\* an exception leaves the handler: the response is an internal error
Raise(st, atts) == Goto("done", st, cand, retry_count, sub, atts)

\* while retry_count >= 0: ... ; otherwise the for loop takes the next element
WhileLoop(left, rule, atts) ==
    IF left >= 0
    THEN StartAttempt(left, IF ListMode(rule) THEN 0 ELSE 1, rule, atts)
    ELSE Goto("for", status, cand + 1, left, 0, atts)

\* the end of one round of the while loop (chat.py 190-193)
EndOfRound(atts) ==
    LET d == SleepDecision(retry_count, model_fallback_rule) IN
    IF d = "TypeError" THEN Raise(500, atts)
    ELSE IF d = "sleep"
         THEN Goto("sleep", status, cand, retry_count, sub, atts)
         ELSE WhileLoop(retry_count - 1, model_fallback_rule, atts)

\* (fault) after a failed sub-provider the whole candidate is asked
NextSub_whole(s) == 0

\* the sub-provider to ask after sub-provider s failed
NextSub(s) == s + 1

\* after a failed attempt: the next sub-provider, or the end of the round
Continue(atts) ==
    IF sub # 0 /\ sub < Len(SubOrder(model_fallback_rule))
    THEN StartAttempt(retry_count, NextSub(sub), model_fallback_rule, atts)
    ELSE EndOfRound(atts)

SetLast(atts, r) == [atts EXCEPT ![Len(atts)].res = r]

\* logging.warning("Failed attempt ... Payload: {payload}"): the list-mode
\* branch first replaces payload["messages"] (chat.py 148-152), the
\* sub-provider branch prints the payload as it was sent (chat.py 180-183)
FailureLog(atts) ==
    LET a == atts[Len(atts)] IN
    [atts EXCEPT ![Len(atts)].logged =
        Append(a.logged, IF a.sub = 0 THEN Redacted(a.payload) ELSE a.payload)]

\* the else branch of "if response_data and error_detail is None":
\* last_error_detail = f"Model ... failed ...: {error_detail}", of which the
\* model keeps the error_detail
FailedAttempt(detail) ==
    /\ last_error_detail' = detail
    /\ Continue(FailureLog(SetLast(attempts, "fail")))

\* (fault) a successful attempt is not returned: the loop goes on
ReturnResponse_continues(next_pc) == Continue(SetLast(attempts, "ok"))

\* return response_data
ReturnResponse(next_pc) ==
    Goto(next_pc, 200, cand, retry_count, sub, SetLast(attempts, "ok"))

\* if response_data and error_detail is None
IsSuccess(response_data, detail) == response_data # None /\ detail = None

\* ------------------------------------------------------------- actions
Init ==
    /\ pc = "start"
    /\ status = 0
    /\ is_streaming = FALSE
    /\ model_fallbacks_sequence = <<>>
    /\ rule_found = FALSE
    /\ rotation_db = Absent
    /\ cand = 0
    /\ model_fallback_rule = NoRule
    /\ retry_count = 0
    /\ sub = 0
    /\ attempts = <<>>
    /\ request_body_json = RequestBody
    /\ last_error_detail = NoDetail
    /\ last_failed = NoFailure
    /\ opened = FALSE
    /\ looking_first_chunk = TRUE
    /\ error_in_stream = FALSE
    /\ error_detail = None
    /\ first_content_chunk_candidate = 0
    /\ tokens_usage = "unbound"
    /\ received = <<>>
    /\ first_real_idx = 0
    /\ first_event = "none"
    /\ delivered = <<>>
    /\ relay_result = "none"
    /\ model_rotation = Absent
    /\ rot_log = <<>>
    /\ proc = "boot"
    /\ fallback_provider = None
    /\ providers_config = NoProviders
    /\ fallback_rules = NoRules
    /\ request_config = Absent
    /\ requested_model = None
    /\ provider_config = Absent
    /\ reloads = 0
    /\ reload_result = [op |-> "none", result |-> "none"]
    /\ tap_thread = "none"
    /\ tap_queue = <<>>
    /\ tap_tokens_usage = InitTokens
    /\ records = <<>>
    /\ st_table = [k \in StKeys |-> Absent]
    /\ st_lock = 0
    /\ st_call = [p \in Callers |-> IdleCall]
    /\ st_log = <<>>
    /\ rules_file = NoRulesFile
    /\ providers_file = NoProvidersFile
    /\ edit = NoEdit
    /\ client = "connected"
    /\ undecodable = {}
    /\ answer = NoAnswer
    /\ usage_call = NoUsageCall
    /\ rotation_use = NoUse

\* chat_completions up to the candidate loop (chat.py 24-84)
Receive(body, stream, n, rotate_models, row, db_ok) ==
    /\ pc = "start"
    /\ UNCHANGED <<model_fallback_rule, errs, relay>>
    /\ is_streaming' = stream
    /\ IF body \in {"unreadable", "no_model"}
       THEN /\ Goto("done", 400, cand, retry_count, sub, attempts)
            /\ UNCHANGED <<model_fallbacks_sequence, rule_found, rotation_db>>
       ELSE IF body = "no_rule"
       THEN /\ Goto("for", status, 1, retry_count, sub, attempts)
            /\ model_fallbacks_sequence' = <<1>>
            /\ rule_found' = FALSE
            /\ UNCHANGED rotation_db
       ELSE /\ Goto("for", status, 1, retry_count, sub, attempts)
            /\ rule_found' = TRUE
            /\ IF rotate_models /\ n > 1
               THEN LET r == get_next_model_index(row, n, db_ok) IN
                    /\ rotation_db' = r[2]
                    /\ model_fallbacks_sequence' =
                           Reordered([i \in 1..n |-> i], r[1])
               ELSE /\ UNCHANGED rotation_db
                    /\ model_fallbacks_sequence' = [i \in 1..n |-> i]

\* for model_fallback_rule in model_fallbacks_sequence (chat.py 85-127)
NextCandidate(rule) ==
    /\ pc = "for"
    /\ cand <= Len(model_fallbacks_sequence)
    /\ rule \in (IF rule_found THEN FallbackModelRule ELSE SyntheticFallbackRule)
    /\ model_fallback_rule' = rule
    /\ UNCHANGED <<req, errs, relay>>
    /\ IF ~rule.provider_known
       THEN Raise(500, <<>>)      \* provider_config.baseUrl on None
       ELSE WhileLoop(RetryCountOrZero(rule), rule, <<>>)

\* the for loop is over (chat.py 196-197)
AllFailed ==
    /\ pc = "for"
    /\ cand > Len(model_fallbacks_sequence)
    /\ Goto("done", 503, cand, retry_count, sub, attempts)
    /\ UNCHANGED <<req, model_fallback_rule, errs, relay>>

\* make_llm_request, buffered (request_handler.py 135-170)
PostResult(resp) ==
    IF resp.status = 0 THEN <<None, resp.text>>
    ELSE IF resp.status >= 400 THEN <<None, resp.text>>
    ELSE IF ~resp.valid THEN <<None, resp.text>>
    ELSE IF "error" \in resp.keys \/ "detail" \in resp.keys
         THEN <<None, resp.text>>
    ELSE <<IF resp.keys = {} THEN None ELSE "json", None>>

\* the buffered POST returns and the handler runs to its next suspension
PostReturns(resp) ==
    /\ pc = "attempt"
    /\ ~is_streaming
    /\ UNCHANGED <<req, model_fallback_rule, relay>>
    /\ LET r == PostResult(resp) IN
       IF IsSuccess(r[1], r[2])
       THEN /\ ReturnResponse("done")
            /\ UNCHANGED errs
       ELSE /\ FailedAttempt(r[2])
            /\ last_failed' = [cause |-> "request", detail |-> r[2]]

\* --------------------------------------------------- the streamed attempt
\* the bytes of the i-th chunk of the upstream being asked
Token(i) == <<cand, Len(attempts), i>>

\* index of the first segment that starts with "data: {", 0 if none
FirstReal(c) ==
    IF \E i \in 1..Len(c.segs) : c.segs[i].real
    THEN CHOOSE i \in 1..Len(c.segs) :
             c.segs[i].real /\ \A j \in 1..(i - 1) : ~c.segs[j].real
    ELSE 0

\* what the first real event of a chunk is, as the upstream sent it
EventOf(c) ==
    IF ~c.utf8 \/ FirstReal(c) = 0 THEN "none"
    ELSE IF ~c.segs[FirstReal(c)].valid THEN "unparsable"
    ELSE IF {"error", "detail"} \cap c.segs[FirstReal(c)].keys # {} THEN "error"
    ELSE "ok"

\* "error" in chunk_json or "detail" in chunk_json
HasError(seg) == "error" \in seg.keys \/ "detail" \in seg.keys

\* stream_generator on one chunk while looking_first_chunk
\* (request_handler.py 33-59)
StreamGenerator(c) ==
    IF c.empty THEN "skip"
    ELSE IF ~c.utf8 THEN "yield"
    ELSE IF FirstReal(c) = 0 THEN "yield"
    ELSE IF ~c.segs[FirstReal(c)].valid THEN "raise"
    ELSE IF HasError(c.segs[FirstReal(c)]) THEN "return"
    ELSE "yield"

\* the priming loop on one chunk it was given (request_handler.py 64-85)
Priming(c) ==
    IF ~c.utf8 THEN "continue"
    ELSE IF FirstReal(c) = 0 THEN "continue"
    ELSE IF ~c.segs[FirstReal(c)].valid THEN "raise"
    ELSE IF HasError(c.segs[FirstReal(c)]) THEN "error"
    ELSE "candidate"

\* (fault) the chunk used for priming is not replayed
PrimedBytes_dropped(candidate) == <<>>

\* what combined_generator yields before it reads the stream again
\* (request_handler.py 94-96)
PrimedBytes(candidate) == IF candidate = 0 THEN <<>> ELSE <<Token(candidate)>>

\* the segments combined_generator parses in one chunk: the real ones up to
\* the first that fails to parse (request_handler.py 99-122)
Parsed(c) ==
    IF ~c.utf8 THEN {}
    ELSE { i \in 1..Len(c.segs) :
             /\ c.segs[i].real /\ c.segs[i].valid
             /\ \A j \in 1..(i - 1) : c.segs[j].real => c.segs[j].valid }

\* make_llm_request returned (None, detail) for a streamed attempt
StreamFailed(cause, detail) ==
    /\ FailedAttempt(detail)
    /\ last_failed' = [cause |-> cause, detail |-> detail]
    /\ RelayInit

\* client.stream(...) answers (request_handler.py 23-30, 161-165)
StreamOpens(resp) ==
    /\ pc = "attempt"
    /\ is_streaming
    /\ ~opened
    /\ UNCHANGED <<req, model_fallback_rule>>
    /\ IF resp.status = 0 \/ resp.status >= 400
       THEN StreamFailed("request", resp.text)
       ELSE /\ opened' = TRUE
            /\ UNCHANGED <<ctl, errs, looking_first_chunk, error_in_stream,
                           error_detail, first_content_chunk_candidate,
                           tokens_usage, received, first_real_idx, first_event,
                           delivered, relay_result>>

\* make_llm_request returned (StreamingResponse, None): the handler returns
\* it and the response body starts with the primed chunk
Commit(candidate, recv, real_at, event) ==
    /\ ReturnResponse("streaming")
    /\ first_content_chunk_candidate' = candidate
    /\ looking_first_chunk' = (candidate = 0)
    /\ received' = recv
    /\ first_real_idx' = real_at
    /\ first_event' = event
    /\ delivered' = PrimedBytes(candidate)
    /\ UNCHANGED <<errs, error_in_stream, error_detail, tokens_usage,
                   relay_result>>

\* one chunk arrives while make_llm_request primes the stream
PrimeChunk(c) ==
    /\ pc = "attempt"
    /\ is_streaming
    /\ opened
    /\ Len(received) < MaxChunks
    /\ UNCHANGED <<req, model_fallback_rule>>
    /\ LET g == StreamGenerator(c)
           p == Priming(c)
           n == Len(received) + 1
       IN  IF g = "skip" THEN UNCHANGED <<ctl, errs, relay>>
           ELSE IF g = "raise" \/ (g = "yield" /\ p = "raise")
                THEN StreamFailed("first_event", "e2")
           ELSE IF g = "return" \/ (g = "yield" /\ p = "error")
                THEN StreamFailed("first_event_error", c.segs[FirstReal(c)].text)
           ELSE IF p = "candidate"
                THEN /\ Commit(n, Append(received, Token(n)), n, EventOf(c))
                     /\ opened' = TRUE
           ELSE /\ received' = Append(received, Token(n))
                /\ first_real_idx' = IF EventOf(c) = "none" THEN 0 ELSE n
                /\ first_event' = EventOf(c)
                /\ UNCHANGED <<ctl, errs, opened, looking_first_chunk,
                               error_in_stream, error_detail,
                               first_content_chunk_candidate, tokens_usage,
                               delivered, relay_result>>

\* the upstream stream ends while make_llm_request primes it: closed by the
\* upstream (StopAsyncIteration, request_handler.py 67-68, 87-133) or broken
\* (httpx.RequestError)
PrimeEnds(how) ==
    /\ pc = "attempt"
    /\ is_streaming
    /\ opened
    /\ UNCHANGED <<req, model_fallback_rule>>
    /\ IF how = "RequestError"
       THEN StreamFailed("request", "e1")
       ELSE Commit(0, received, first_real_idx, first_event) /\ opened' = FALSE

\* (fault) an error event of a returned stream is treated as a failed attempt
RelayChunk_falls_back(c) ==
    /\ pc = "streaming"
    /\ opened
    /\ Len(received) < MaxChunks
    /\ \E i \in Parsed(c) : "code" \in c.segs[i].keys
    /\ UNCHANGED <<req, model_fallback_rule>>
    /\ StreamFailed("mid_stream", "e2")

\* one chunk arrives after the response was returned
\* (request_handler.py 33-59 and 98-125)
RelayChunk(c) ==
    /\ pc = "streaming"
    /\ opened
    /\ Len(received) < MaxChunks
    /\ UNCHANGED <<ctl, req, model_fallback_rule, errs>>
    /\ IF c.empty THEN UNCHANGED relay
       ELSE LET n == Len(received) + 1 IN
            /\ received' = Append(received, Token(n))
            /\ delivered' = Append(delivered, Token(n))
            /\ error_in_stream' =
                 (error_in_stream \/ \E i \in Parsed(c) : "code" \in c.segs[i].keys)
            /\ error_detail' =
                 IF \E i \in Parsed(c) : "code" \in c.segs[i].keys
                 THEN "e1" ELSE error_detail
            /\ tokens_usage' =
                 IF \E i \in Parsed(c) : "usage" \in c.segs[i].keys
                 THEN "bound" ELSE tokens_usage
            /\ UNCHANGED <<opened, looking_first_chunk,
                           first_content_chunk_candidate, first_real_idx,
                           first_event, relay_result>>

\* the stream of a returned response ends: closed by the upstream
\* (request_handler.py 127, where tokens_usage is read) or broken
RelayEnds(how) ==
    /\ pc = "streaming"
    /\ how = "RequestError" => opened
    /\ Goto("done", status, cand, retry_count, sub, attempts)
    /\ relay_result' =
         IF how = "RequestError" THEN "RequestError"
         ELSE IF tokens_usage = "unbound" THEN "UnboundLocalError"
         ELSE "ok"
    /\ opened' = FALSE
    /\ UNCHANGED <<req, model_fallback_rule, errs, looking_first_chunk,
                   error_in_stream, error_detail,
                   first_content_chunk_candidate, tokens_usage, received,
                   first_real_idx, first_event, delivered>>

\* await asyncio.sleep(retry_delay) returns; retry_count -= 1
SleepReturns ==
    /\ pc = "sleep"
    /\ WhileLoop(retry_count - 1, model_fallback_rule, attempts)
    /\ UNCHANGED <<req, model_fallback_rule, errs, relay>>

Next ==
    \/ \E body \in {"unreadable", "no_model", "no_rule", "rule"},
          stream \in BOOLEAN, n \in 1..MaxCandidates,
          rotate_models \in BOOLEAN, row \in StoredRows, db_ok \in BOOLEAN :
            Receive(body, stream, n, rotate_models, row, db_ok) /\ UNCHANGED aux
    \/ \E rule \in FallbackModelRule \cup SyntheticFallbackRule :
            NextCandidate(rule) /\ UNCHANGED aux
    \/ AllFailed /\ UNCHANGED aux
    \/ \E resp \in UpstreamResponses : PostReturns(resp) /\ UNCHANGED aux
    \/ SleepReturns /\ UNCHANGED aux
    \/ \E resp \in StreamOpenings : StreamOpens(resp) /\ UNCHANGED aux
    \/ \E c \in Chunks : PrimeChunk(c) /\ UNCHANGED aux
    \/ \E how \in {"closed", "RequestError"} : PrimeEnds(how) /\ UNCHANGED aux
    \/ \E c \in Chunks : RelayChunk(c) /\ UNCHANGED aux
    \/ \E how \in {"closed", "RequestError"} : RelayEnds(how) /\ UNCHANGED aux

Spec == Init /\ [][Next]_vars

\* ------------------------------------------------------------ properties
IsPrefix(s, t) == Len(s) <= Len(t) /\ SubSeq(t, 1, Len(s)) = s

OkCount(atts) == Cardinality({ i \in 1..Len(atts) : atts[i].res = "ok" })

\* the sub-providers one round of a rule element asks, in order
RoundOrder(rule) ==
    IF ListMode(rule) THEN <<0>> ELSE Get(rule.providers_order)

\* the attempt log without payloads and log lines
Calls(atts) ==
    [ i \in 1..Len(atts) |->
        [left |-> atts[i].left, sub |-> atts[i].sub, res |-> atts[i].res] ]

\* the upstream requests a rule element with r retries calls for when every
\* one of them fails: rounds r, r-1, ..., 0, each in RoundOrder
FailedRounds(rule, r) ==
    LET n == Len(RoundOrder(rule)) IN
    [ i \in 1..((r + 1) * n) |->
        [ left |-> r - ((i - 1) \div n),
          sub  |-> RoundOrder(rule)[((i - 1) % n) + 1],
          res  |-> "fail" ] ]

C2_SequentialOrdered ==
    /\ [](/\ cand \in 0..(Len(model_fallbacks_sequence) + 1)
          /\ LET all == FailedRounds(model_fallback_rule,
                                     RetryCountOrZero(model_fallback_rule))
             IN  /\ Len(attempts) <= Len(all)
                 /\ \A i \in 1..Len(attempts) :
                      /\ attempts[i].left = all[i].left
                      /\ attempts[i].sub = all[i].sub
                      /\ (i < Len(attempts) => attempts[i].res = "fail")
          /\ (pc = "attempt") <=>
                (attempts # <<>> /\ attempts[Len(attempts)].res = "pending"))
    /\ [][/\ cand' \in {cand, cand + 1}
          /\ (cand' = cand /\ pc # "for" =>
                 \/ attempts' = attempts
                 \/ /\ Len(attempts') = Len(attempts)
                    /\ attempts[Len(attempts)].res = "pending"
                 \/ /\ Len(attempts') = Len(attempts) + 1
                    /\ attempts[Len(attempts)].res = "pending"
                    /\ attempts'[Len(attempts)].res = "fail"
                 \/ /\ Len(attempts') = Len(attempts) + 1
                    /\ attempts[Len(attempts)].res = "fail"
                    /\ SubSeq(attempts', 1, Len(attempts)) = attempts)]_vars

\* the second round of the second candidate reaches its second sub-provider
C2_Witness ==
    /\ pc = "attempt"
    /\ cand = 2
    /\ model_fallbacks_sequence = <<2, 1>>
    /\ Len(attempts) = 4
    /\ attempts[4].left = 0
    /\ attempts[4].sub = 2

\* C3: a streamed attempt is returned as the response only after a first
\* real event was read from its upstream and that event carried no error:
\* at every returned streaming response the upstream's first real event
\* exists and is a good one.
C3_CommitAfterGoodEvent ==
    is_streaming /\ status = 200 => first_event = "ok" /\ first_real_idx > 0

\* C4: once a streamed attempt failed on an error in its first real event,
\* the request goes on through the loop (it is still trying, has returned a
\* later attempt's stream, or ended 503 after exhaustion), and whatever the
\* client was sent comes from the attempt that was returned, never from the
\* failed one.
C4_ErrorFirstEventFallsThrough ==
    last_failed.cause = "first_event_error" =>
        /\ status \in {0, 200, 503}
        /\ \A i \in 1..Len(delivered) :
             /\ status = 200
             /\ delivered[i][1] = cand
             /\ delivered[i][2] = Len(attempts)

\* C5: the body of a returned streaming response is the chunks read from
\* its upstream, from the chunk with the first real event onward, each once
\* and in order; nothing is sent before a response is returned.
C5_RelayedBytes ==
    /\ (status # 200 => delivered = <<>>)
    /\ (is_streaming /\ status = 200 =>
          /\ \A i \in 1..Len(received) : received[i] = Token(i)
          /\ delivered = IF first_real_idx = 0 THEN <<>>
                         ELSE SubSeq(received, first_real_idx, Len(received)))

\* the second candidate's stream: two chunks, the first one primed
C5_Witness ==
    /\ is_streaming
    /\ pc = "done"
    /\ cand = 2
    /\ first_real_idx = 1
    /\ Len(delivered) = 2
    /\ relay_result = "ok"

\* C6: once a streaming response was returned, nothing that arrives on its
\* stream starts another upstream request or changes the status: the
\* candidate, the attempt log and the 200 stay, and what was delivered
\* remains a prefix of what is delivered.
C6_CommittedStays ==
    [][is_streaming /\ status = 200 =>
          /\ status' = 200
          /\ cand' = cand
          /\ attempts' = attempts
          /\ pc' \in {"streaming", "done"}
          /\ IsPrefix(delivered, delivered')]_vars

\* an error event came second on the first candidate's returned stream; the
\* second candidate was not asked
C6_Witness ==
    /\ pc = "done"
    /\ status = 200
    /\ error_in_stream
    /\ Len(delivered) = 2
    /\ Len(model_fallbacks_sequence) = 2
    /\ cand = 1

\* C7: a 503 is answered only when the loop is past the last element with
\* nothing delivered, the element left last having been asked its initial
\* round and every retry round, every sub-provider each time, all failing
\* (the elements before it are left the same way).
C7_Only503WhenAllFailed ==
    status = 503 =>
        /\ cand = Len(model_fallbacks_sequence) + 1
        /\ delivered = <<>>
        /\ Calls(attempts) =
             FailedRounds(model_fallback_rule,
                          Max(RetryCountOrZero(model_fallback_rule), 0))

\* C8: a request that has seen an attempt fail and ends without a success
\* ends with 503, and the detail of the 503 is the detail of the last failed
\* attempt.
C8_AllFailedGives503 ==
    pc = "done" /\ last_failed.cause # "none" /\ status # 200 =>
        /\ status = 503
        /\ last_error_detail = last_failed.detail

\* C9: a request that entered the candidate loop ends with a success or,
\* after exhaustion, with 503; no failure met on the way (an unknown
\* provider included) ends it with anything else.
C9_FailuresFeedLoop ==
    pc = "done" /\ cand > 0 =>
        \/ status = 200
        \/ status = 503 /\ cand = Len(model_fallbacks_sequence) + 1

\* C10: when the handler is through with an element whose attempts all
\* failed, it has called the upstream retry_count + 1 times, times the
\* number of sub-providers when they are asked one by one.
C10_AttemptsPerCandidate ==
    /\ pc \in {"for", "done"}
    /\ attempts # <<>>
    /\ \A i \in 1..Len(attempts) : attempts[i].res = "fail"
    => Len(attempts) =
         (RetryCountOrZero(model_fallback_rule) + 1)
           * Max(1, Len(SubOrder(model_fallback_rule)))

\* ============================================================ rotation
\* Successive requests of one caller key for one gateway model whose rule
\* has rotate_models set.  The handler's steps are the ones above, with the
\* row it reads taken from the table and what it writes put back; every
\* candidate is a plain one (known provider, no retry, no sub-providers) and
\* answers a buffered POST with an HTTP error or a completion.

\* lengths of the rotated rule's fallback_models at the time of a request
RotLengths == 2..(MaxCandidates + 1)

PlainRule ==
    [ provider_known |-> TRUE, model |-> "x", retry_count |-> Absent,
      retry_delay |-> Absent, providers_order |-> Absent,
      use_provider_order_as_fallback |-> FALSE,
      custom_body_params |-> Absent, custom_headers |-> Absent ]

RotResponses ==
    { r \in UpstreamResponses :
        r.status = 500 \/ (r.status = 200 /\ r.keys = {"choices"}) }

\* chat.py 63-80 with ModelRotationDB.get_next_model_index on the table
RotReceive(n, db_ok) ==
    /\ Len(rot_log) < MaxRequests
    /\ Receive("rule", FALSE, n, TRUE, model_rotation, db_ok)
    /\ model_rotation' =
         IF rotation_db' = Absent THEN model_rotation ELSE rotation_db'
    /\ rot_log' = Append(rot_log, [ n     |-> n,
                                    start |-> model_fallbacks_sequence'[1] - 1,
                                    ok    |-> db_ok ])
    /\ UNCHANGED <<cfg, tap, ext>>

RotCandidate == NextCandidate(PlainRule) /\ UNCHANGED <<store, cfg, tap, ext>>

RotPostReturns(resp) == PostReturns(resp) /\ UNCHANGED <<store, cfg, tap, ext>>

RotAllFailed == AllFailed /\ UNCHANGED <<store, cfg, tap, ext>>

\* the caller's next request arrives after the previous one ended
RotNextRequest ==
    /\ pc = "done"
    /\ Len(rot_log) < MaxRequests
    /\ Goto("start", 0, 0, 0, 0, <<>>)
    /\ is_streaming' = FALSE
    /\ model_fallbacks_sequence' = <<>>
    /\ rule_found' = FALSE
    /\ rotation_db' = Absent
    /\ model_fallback_rule' = NoRule
    /\ last_error_detail' = NoDetail
    /\ last_failed' = NoFailure
    /\ RelayInit
    /\ UNCHANGED <<store, cfg, tap, ext>>

RotNext ==
    \/ \E n \in RotLengths, db_ok \in BOOLEAN : RotReceive(n, db_ok)
    \/ RotCandidate
    \/ \E resp \in RotResponses : RotPostReturns(resp)
    \/ RotAllFailed
    \/ RotNextRequest

SpecRotation == Init /\ [][RotNext]_vars

\* the requests before the i-th in which the table was written
RotWrites(i) == { j \in 1..(i - 1) : rot_log[j].ok }

\* C11: with rotation on and N > 1 candidates, the first request of a caller
\* for a model starts at index 0 and every later one at the previous start
\* plus one modulo N (requests in which sqlite failed aside: they start at 0
\* and write nothing); the request walks the list from that index; the row
\* holds the last start, and it is written by the step that receives the
\* request, before any upstream request, and by no other step.
C11_RotationAdvances ==
    /\ [](/\ \A i \in 1..Len(rot_log) :
               rot_log[i].ok =>
                 IF RotWrites(i) = {} THEN rot_log[i].start = 0
                 ELSE LET j == CHOOSE k \in RotWrites(i) :
                                  \A m \in RotWrites(i) : m <= k
                      IN  rot_log[i].start =
                            (rot_log[j].start + 1) % rot_log[i].n
          /\ (LET w == RotWrites(Len(rot_log) + 1) IN
              model_rotation =
                IF w = {} THEN Absent
                ELSE Some(rot_log[CHOOSE k \in w : \A m \in w : m <= k].start))
          /\ (pc # "start" /\ rot_log # <<>> =>
                LET e == rot_log[Len(rot_log)] IN
                model_fallbacks_sequence =
                    Reordered([i \in 1..e.n |-> i], e.start)))
    /\ [][/\ (pc # "start" => model_rotation' = model_rotation)
          /\ (pc = "start" /\ pc' # "start" =>
                /\ attempts' = <<>>
                /\ Len(rot_log') = Len(rot_log) + 1)]_vars

\* three requests against a two-candidate rule: starts 0, 1, 0, the third
\* answered by its second candidate after the first one failed
C11_Witness ==
    /\ Len(rot_log) = 3
    /\ \A i \in 1..3 : rot_log[i].ok /\ rot_log[i].n = 2
    /\ rot_log[1].start = 0
    /\ rot_log[2].start = 1
    /\ rot_log[3].start = 0
    /\ pc = "done"
    /\ status = 200
    /\ cand = 2

\* ======================================================= configuration
\* The ConfigLoader (config/loader.py) behind the chat handler and the
\* configuration editor (api/v1/rules_editor.py).  The process is started
\* by load_providers and load_fallback_rules, after which the two reload
\* operations run at any moment, one request being handled meanwhile.  What
\* a file holds when it is read is an input of the step that reads it.
MaxReloads == 2         \* reload calls in one run

El(p, m) == [provider |-> p, model |-> m]

RuleOf(fm, rot) == [fallback_models |-> fm, rotate_models |-> rot]

ProvidersMaps ==
    { NoProviders,
      [p \in {"p1"} |-> "u1"],
      [p \in {"p1"} |-> "u2"],
      [p \in {"p2"} |-> "u1"],
      [p \in {"p1", "p2"} |-> "u1"] }

\* providers.json as read: missing, not JSON, not a list, a list with an
\* entry that is not {name: {baseUrl, apikey}}, or a list of valid entries
ProvidersDocs ==
    [kind : {"missing", "malformed", "not_list", "bad_entry"},
     providers : {NoProviders}]
    \cup [kind : {"list"}, providers : ProvidersMaps]

RulesMaps ==
    {NoRules}
    \cup { [g \in {"m"} |-> RuleOf(fm, FALSE)] :
             fm \in { <<>>,
                      <<El("p1", "x")>>,
                      <<El("p2", "x")>>,
                      <<El("p1", "x"), El("p2", "x")>>,
                      <<El("p1", "")>>,
                      <<El("", "x")>> } }
    \cup { [g \in {"m"} |-> RuleOf(<<El("p1", "x"), El("p2", "x")>>, TRUE)] }

\* models_fallback_rules.json as read: missing, not a JSON list, a list with
\* an entry ModelFallbackConfig rejects, or a list of entries it accepts
RulesDocs ==
    [kind : {"missing", "malformed", "bad_entry"}, rules : {NoRules}]
    \cup [kind : {"list"}, rules : RulesMaps]

\* ConfigLoader._perform_provider_semantic_validation
\* (the api-key check only warns)
SemanticValid(providers, fp) == fp = None \/ fp \in DOMAIN providers

\* ConfigLoader.load_providers: sys.exit(1) on every failure; the attribute
\* is assigned before the semantic validation
load_providers(cur, pdoc, fp) ==
    IF pdoc.kind # "list"
    THEN [exit |-> TRUE, providers_config |-> cur]
    ELSE [exit |-> ~SemanticValid(pdoc.providers, fp),
          providers_config |-> pdoc.providers]

\* the checks of _validate_fallback_rules and of reload_fallback_rules
RulesValid(rules, providers) ==
    \A g \in DOMAIN rules :
        /\ rules[g].fallback_models # <<>>
        /\ \A i \in 1..Len(rules[g].fallback_models) :
             LET e == rules[g].fallback_models[i] IN
             /\ e.provider # ""
             /\ e.model # ""
             /\ e.provider \in DOMAIN providers

\* ConfigLoader.load_fallback_rules with _validate_fallback_rules
load_fallback_rules(providers, rdoc, pdoc, fp) ==
    IF rdoc.kind = "missing"
    THEN [exit |-> FALSE, providers_config |-> providers, fallback_rules |-> NoRules]
    ELSE IF rdoc.kind # "list"
    THEN [exit |-> TRUE, providers_config |-> providers, fallback_rules |-> NoRules]
    ELSE LET lp == IF providers = NoProviders
                   THEN load_providers(providers, pdoc, fp)
                   ELSE [exit |-> FALSE, providers_config |-> providers]
         IN  [exit |-> \/ lp.exit
                       \/ lp.providers_config = NoProviders
                       \/ ~RulesValid(rdoc.rules, lp.providers_config),
              providers_config |-> lp.providers_config,
              fallback_rules |-> rdoc.rules]

\* ConfigLoader.reload_fallback_rules: what it returns ("SystemExit" when
\* load_providers leaves through sys.exit) and the attributes afterwards
reload_fallback_rules(providers, rules, rdoc, pdoc, fp) ==
    IF rdoc.kind # "list"
    THEN [result |-> "False", providers_config |-> providers, fallback_rules |-> rules]
    ELSE LET lp == IF providers = NoProviders
                   THEN load_providers(providers, pdoc, fp)
                   ELSE [exit |-> FALSE, providers_config |-> providers]
         IN  IF lp.exit
             THEN [result |-> "SystemExit", providers_config |-> lp.providers_config,
                   fallback_rules |-> rules]
             ELSE IF lp.providers_config = NoProviders
                     \/ ~RulesValid(rdoc.rules, lp.providers_config)
             THEN [result |-> "False", providers_config |-> lp.providers_config,
                   fallback_rules |-> rules]
             ELSE [result |-> "True", providers_config |-> lp.providers_config,
                   fallback_rules |-> rdoc.rules]

\* ConfigLoader.reload_providers_config
reload_providers_config(providers, pdoc, fp) ==
    IF pdoc.kind # "list" THEN [result |-> "False", providers_config |-> providers]
    ELSE IF ~SemanticValid(pdoc.providers, fp)
    THEN [result |-> "False", providers_config |-> providers]
    ELSE [result |-> "True", providers_config |-> pdoc.providers]

request == <<ctl, req, model_fallback_rule, errs, relay>>

\* ConfigLoader(), load_providers(), load_fallback_rules(): a start that
\* exits leaves no process behind
Startup(fp, pdoc, rdoc) ==
    /\ proc = "boot"
    /\ LET lp == load_providers(providers_config, pdoc, fp)
           lr == load_fallback_rules(lp.providers_config, rdoc, pdoc, fp)
       IN  /\ ~lp.exit
           /\ ~lr.exit
           /\ providers_config' = lr.providers_config
           /\ fallback_rules' = lr.fallback_rules
    /\ fallback_provider' = fp
    /\ proc' = "up"
    /\ UNCHANGED <<request_config, requested_model, provider_config, reloads,
                   reload_result, request, store, tap, ext>>

\* SystemExit raised under a request handler: the event loop stops (the
\* handler runs in a task of its own) or the server answers 500 and goes on
AfterCall(result, ends) ==
    IF result = "SystemExit" /\ ends THEN "exited" ELSE "up"

\* rules_editor.save_fallback_rules_config -> reload_fallback_rules()
ReloadRules(rdoc, pdoc, ends) ==
    /\ proc = "up"
    /\ reloads < MaxReloads
    /\ LET r == reload_fallback_rules(providers_config, fallback_rules,
                                      rdoc, pdoc, fallback_provider)
       IN  /\ providers_config' = r.providers_config
           /\ fallback_rules' = r.fallback_rules
           /\ reload_result' = [op |-> "rules", result |-> r.result]
           /\ proc' = AfterCall(r.result, ends)
    /\ reloads' = reloads + 1
    /\ UNCHANGED <<fallback_provider, request_config, requested_model,
                   provider_config, request, store, tap, ext>>

\* rules_editor.save_providers_config -> reload_providers_config()
ReloadProviders(pdoc) ==
    /\ proc = "up"
    /\ reloads < MaxReloads
    /\ LET r == reload_providers_config(providers_config, pdoc, fallback_provider)
       IN  /\ providers_config' = r.providers_config
           /\ reload_result' = [op |-> "providers", result |-> r.result]
    /\ reloads' = reloads + 1
    /\ UNCHANGED <<proc, fallback_provider, fallback_rules, request_config,
                   requested_model, provider_config, request, store, tap, ext>>

\* chat.py 24-31: the handler takes the loader's two dictionaries
CfgBegin ==
    /\ proc = "up"
    /\ pc = "start"
    /\ request_config = Absent
    /\ request_config' = Some([providers_config |-> providers_config,
                               fallback_rules |-> fallback_rules])
    /\ UNCHANGED <<proc, fallback_provider, providers_config, fallback_rules,
                   requested_model, provider_config, reloads, reload_result,
                   request, store, tap, ext>>

\* chat.py 33-84 on the dictionaries taken
CfgReceive(model) ==
    /\ proc = "up"
    /\ request_config # Absent
    /\ LET rules == Get(request_config).fallback_rules
           found == model \in DOMAIN rules
       IN  Receive(IF found THEN "rule" ELSE "no_rule", FALSE,
                   IF found THEN Len(rules[model].fallback_models) ELSE 1,
                   found /\ rules[model].rotate_models, model_rotation, TRUE)
    /\ requested_model' = model
    /\ model_rotation' =
         IF rotation_db' = Absent THEN model_rotation ELSE rotation_db'
    /\ UNCHANGED <<proc, fallback_provider, providers_config, fallback_rules,
                   request_config, provider_config, reloads, reload_result,
                   rot_log, tap, ext>>

\* the element the for loop is at: an element of the rule taken, or
\* {"provider": settings.fallback_provider, "model": requested_model}
CfgElement ==
    IF rule_found
    THEN Get(request_config).fallback_rules[requested_model]
             .fallback_models[model_fallbacks_sequence[cand]]
    ELSE El(fallback_provider, requested_model)

\* provider_config = providers_config.get(provider_name)
ProviderConfigGet(providers, name) ==
    IF name \in DOMAIN providers THEN Some(providers[name]) ELSE Absent

\* chat.py 85-127 on the dictionaries taken
CfgCandidate ==
    /\ proc = "up"
    /\ pc = "for"
    /\ cand <= Len(model_fallbacks_sequence)
    /\ LET found == ProviderConfigGet(Get(request_config).providers_config,
                                      CfgElement.provider)
       IN  /\ provider_config' = found
           /\ NextCandidate([PlainRule EXCEPT
                                !.provider_known = found # Absent,
                                !.model = IF rule_found THEN "x" ELSE "m"])
    /\ UNCHANGED <<proc, fallback_provider, providers_config, fallback_rules,
                   request_config, requested_model, reloads, reload_result,
                   store, tap, ext>>

CfgPostReturns(resp) ==
    /\ proc = "up"
    /\ PostReturns(resp)
    /\ UNCHANGED aux

CfgAllFailed ==
    /\ proc = "up"
    /\ AllFailed
    /\ UNCHANGED aux

CfgNext ==
    \/ \E fp \in {None, "p1"}, pdoc \in ProvidersDocs, rdoc \in RulesDocs :
           Startup(fp, pdoc, rdoc)
    \/ \E rdoc \in RulesDocs, pdoc \in ProvidersDocs, ends \in BOOLEAN :
           ReloadRules(rdoc, pdoc, ends)
    \/ \E pdoc \in ProvidersDocs : ReloadProviders(pdoc)
    \/ CfgBegin
    \/ \E model \in {"m", "other"} : CfgReceive(model)
    \/ CfgCandidate
    \/ \E resp \in RotResponses : CfgPostReturns(resp)
    \/ CfgAllFailed

SpecConfig == Init /\ [][CfgNext]_vars

\* a request is in flight from the moment the handler took the loader's
\* dictionaries until its response is decided
InFlight == request_config # Absent /\ pc # "done"

\* every step of a request goes by the dictionaries it took at its start:
\* they stay what they were, the candidate list is the taken rule's, every
\* provider is looked up in the taken providers map, and a reload step
\* leaves the request where it is
C12_SnapshotKept ==
    /\ [](pc \in {"for", "attempt"} =>
            LET snap == Get(request_config) IN
            /\ rule_found = (requested_model \in DOMAIN snap.fallback_rules)
            /\ rule_found =>
                 Len(model_fallbacks_sequence) =
                     Len(snap.fallback_rules[requested_model].fallback_models)
            /\ pc = "attempt" =>
                 provider_config =
                     ProviderConfigGet(snap.providers_config, CfgElement.provider))
    /\ [][/\ (request_config # Absent => request_config' = request_config)
          /\ (reloads' # reloads => UNCHANGED request)]_vars

\* C12: a rules or providers reload made while a request is in flight never
\* changes what the request does: the request goes by the providers map and
\* the rule that were current when it started, and it is not interrupted
\* (the process that serves it stays up).
C12_ReloadKeepsRequest ==
    /\ C12_SnapshotKept
    /\ [](InFlight => proc = "up")

\* C13: a reload that does not succeed returns False and leaves the exposed
\* providers and the exposed rules exactly as they were before the call.
C13_FailedReloadUntouched ==
    [][reloads' # reloads /\ reload_result'.result # "True" =>
          /\ reload_result'.result = "False"
          /\ providers_config' = providers_config
          /\ fallback_rules' = fallback_rules]_vars

\* C14: whatever reloads were made, every exposed rule has at least one
\* candidate and every candidate's provider is a key of the exposed
\* providers map.
C14_RulesResolve ==
    proc = "up" =>
      \A g \in DOMAIN fallback_rules :
        /\ Len(fallback_rules[g].fallback_models) >= 1
        /\ \A i \in 1..Len(fallback_rules[g].fallback_models) :
             fallback_rules[g].fallback_models[i].provider
                 \in DOMAIN providers_config

\* ============================================================ chat log
\* middleware/chat_logging.py around one request for a rule with a single
\* plain candidate.  Every chunk the response yields is put on the queue of
\* a ChunkProcessorThread started at the first chunk; the thread reads the
\* queue, ends when it stayed empty for five seconds, and write_log writes
\* one log file per call that gets through.

\* what the "usage" object of a body or event holds: "plain" has the
\* counters only, "detailed" has prompt_tokens_details.cached_tokens too
UsageShapes == {"plain", "detailed"}

\* get_token_usage(chunk_data) for a usage object of the given shape
get_token_usage(shape) ==
    [ keys |-> {"prompt_tokens", "completion_tokens", "total_tokens",
                "reasoning_tokens", "cached_tokes", "cost"}
               \cup (IF shape = "detailed" THEN {"cached_tokens"} ELSE {}),
      from_usage |-> TRUE ]

\* write_log: the files after the call; a KeyError in building the text is
\* caught and logged, and nothing is written
write_log(files, tokens) ==
    IF {"prompt_tokens", "completion_tokens", "cached_tokens",
        "reasoning_tokens", "total_tokens", "cost"} \subseteq tokens.keys
    THEN Append(files, tokens)
    ELSE files

\* a chunk as the thread sees it: json says the segment starts with
\* "data: {" or "{"
TapChunk(c, shape) ==
    [ utf8 |-> c.utf8,
      segs |-> [ i \in 1..Len(c.segs) |->
                   [ json  |-> c.segs[i].real,
                     valid |-> c.segs[i].valid,
                     keys  |-> c.segs[i].keys,
                     shape |-> shape ] ] ]

\* the body of a buffered response: one JSON object
BodyChunk(keys, shape) ==
    [ utf8 |-> TRUE,
      segs |-> << [json |-> TRUE, valid |-> TRUE, keys |-> keys, shape |-> shape] >> ]

\* ChunkProcessorThread.run on the segments i.. of one chunk (lines 80-103):
\* a segment that fails to parse ends the chunk
RECURSIVE ProcessSegs(_, _, _, _)
ProcessSegs(segs, i, tokens, files) ==
    IF i > Len(segs) THEN [tokens |-> tokens, files |-> files]
    ELSE IF ~segs[i].json THEN ProcessSegs(segs, i + 1, tokens, files)
    ELSE IF ~segs[i].valid THEN [tokens |-> tokens, files |-> files]
    ELSE LET t == IF "usage" \in segs[i].keys
                  THEN get_token_usage(segs[i].shape) ELSE tokens
             f == IF "error" \in segs[i].keys THEN write_log(files, t) ELSE files
         IN  ProcessSegs(segs, i + 1, t, f)

\* enqueueing_generator on one chunk (lines 150-161)
Enqueue(chunk) ==
    /\ tap_thread' = IF tap_thread = "none" THEN "running" ELSE tap_thread
    /\ tap_queue' = Append(tap_queue, chunk)
    /\ UNCHANGED <<tap_tokens_usage, records>>

\* the thread takes a chunk off the queue
TapProcess ==
    /\ tap_thread = "running"
    /\ tap_queue # <<>>
    /\ LET c == Head(tap_queue)
           r == IF c.utf8 THEN ProcessSegs(c.segs, 1, tap_tokens_usage, records)
                ELSE [tokens |-> tap_tokens_usage, files |-> records]
       IN  /\ tap_tokens_usage' = r.tokens
           /\ records' = r.files
    /\ tap_queue' = Tail(tap_queue)
    /\ UNCHANGED <<tap_thread, request, store, cfg, ext>>

\* queue.get(timeout=5) raises Empty: the loop ends and the log is written
TapTimeout ==
    /\ tap_thread = "running"
    /\ tap_queue = <<>>
    /\ records' = write_log(records, tap_tokens_usage)
    /\ tap_thread' = "ended"
    /\ UNCHANGED <<tap_queue, tap_tokens_usage, request, store, cfg, ext>>

TapReceive(stream) ==
    /\ Receive("rule", stream, 1, FALSE, Absent, TRUE)
    /\ UNCHANGED aux

TapCandidate == NextCandidate(PlainRule) /\ UNCHANGED aux

\* the 503 of chat.py 197 is a JSON body {"detail": ...}
TapAllFailed ==
    /\ AllFailed
    /\ Enqueue(BodyChunk({"detail"}, "plain"))
    /\ UNCHANGED <<store, cfg, ext>>

\* the buffered attempt returns; a completion goes out as one JSON body,
\* with a usage object of some shape or with none
TapPostReturns(resp, usage) ==
    /\ PostReturns(resp)
    /\ IF status' = 200
       THEN Enqueue(BodyChunk(resp.keys \cup (IF usage = "none" THEN {} ELSE {"usage"}),
                              usage))
       ELSE UNCHANGED tap
    /\ UNCHANGED <<store, cfg, ext>>

TapStreamOpens(resp) == StreamOpens(resp) /\ UNCHANGED aux

\* what the response yields in a step goes on the queue
Yielded(c, shape) ==
    IF delivered' # delivered THEN Enqueue(TapChunk(c, shape)) ELSE UNCHANGED tap

TapPrimeChunk(c, shape) ==
    /\ PrimeChunk(c)
    /\ Yielded(c, shape)
    /\ UNCHANGED <<store, cfg, ext>>

TapPrimeEnds(how) == PrimeEnds(how) /\ UNCHANGED aux

TapRelayChunk(c, shape) ==
    /\ RelayChunk(c)
    /\ Yielded(c, shape)
    /\ UNCHANGED <<store, cfg, ext>>

TapRelayEnds(how) == RelayEnds(how) /\ UNCHANGED aux

\* the chunks of the upstream: one segment each, or a good event followed
\* by an error event
TapChunks ==
    { c \in Chunks :
        Len(c.segs) = 2 => c.segs[1].keys = {"choices"} /\ c.segs[2].keys = {"error"} }

\* "detailed" is drawn only for a chunk that has a usage object
ShapesOf(c) ==
    IF \E i \in 1..Len(c.segs) : "usage" \in c.segs[i].keys
    THEN UsageShapes ELSE {"plain"}

TapNext ==
    \/ \E stream \in BOOLEAN : TapReceive(stream)
    \/ TapCandidate
    \/ TapAllFailed
    \/ \E resp \in RotResponses, usage \in UsageShapes \cup {"none"} :
           TapPostReturns(resp, usage)
    \/ \E resp \in StreamOpenings : TapStreamOpens(resp)
    \/ \E c \in TapChunks, shape \in UsageShapes :
           shape \in ShapesOf(c) /\ TapPrimeChunk(c, shape)
    \/ \E how \in {"closed", "RequestError"} : TapPrimeEnds(how)
    \/ \E c \in TapChunks, shape \in UsageShapes :
           shape \in ShapesOf(c) /\ TapRelayChunk(c, shape)
    \/ \E how \in {"closed", "RequestError"} : TapRelayEnds(how)
    \/ TapProcess
    \/ TapTimeout

SpecUsage == Init /\ [][TapNext]_vars

\* C15: a request the handler answered with Success has at most one log
\* record, whatever events its response carries afterwards.
C15_AtMostOneRecord == status = 200 => Len(records) <= 1

\* C16: once the log thread of a completed request whose response had a
\* non-empty body has ended, exactly one record exists; its counters are the initial zeros when no usage
\* object was seen, and a record exists as well when one was seen, with or
\* without the detail sub-objects.
C16_ExactlyOneRecord ==
    (pc = "done" /\ status = 200 /\ tap_thread = "ended") =>
        /\ Len(records) = 1
        /\ (tap_tokens_usage = InitTokens => records[1] = InitTokens)

\* ============================================================ retry delay
\* 0 < retry_delay < 120 for the element the loop is at
DelayInRange ==
    /\ model_fallback_rule.retry_delay # Absent
    /\ Get(model_fallback_rule.retry_delay) > 0
    /\ Get(model_fallback_rule.retry_delay) < 120

\* the step in which a round of the while loop ends with its last upstream
\* request failed
RoundFailed ==
    /\ pc = "attempt"
    /\ Len(attempts') >= Len(attempts)
    /\ attempts'[Len(attempts)].res = "fail"
    /\ (sub = 0 \/ sub >= Len(SubOrder(model_fallback_rule)))

\* C17: after a failed round the handler sleeps exactly when retries remain
\* (retry_count > 0) and 0 < retry_delay < 120, so never after the last
\* retry and never for -1, 0 or 120; the sleep is followed by the next round
\* of the same candidate, and a candidate all of whose rounds failed was
\* asked the same upstream requests whether it slept or not.
C17_SleepOnlyInRange ==
    /\ [](/\ (pc = "sleep" =>
                /\ retry_count > 0
                /\ DelayInRange
                /\ attempts[Len(attempts)].res = "fail")
          /\ (pc = "for" /\ attempts # <<>> =>
                Calls(attempts) = FailedRounds(model_fallback_rule,
                                        RetryCountOrZero(model_fallback_rule))))
    /\ [][/\ (RoundFailed =>
                ((pc' = "sleep") <=> (retry_count > 0 /\ DelayInRange)))
          /\ (pc = "sleep" =>
                /\ pc' = "attempt"
                /\ cand' = cand
                /\ retry_count' = retry_count - 1
                /\ Len(attempts') = Len(attempts) + 1
                /\ SubSeq(attempts', 1, Len(attempts)) = attempts)]_vars

\* a candidate with one retry and a delay of 119 seconds: its first round
\* failed, it slept, and the retry was answered
C17_Witness ==
    /\ model_fallback_rule.retry_delay = Some(119)
    /\ model_fallback_rule.retry_count = Some(1)
    /\ Len(attempts) = 2
    /\ Calls(attempts)[1] = [left |-> 1, sub |-> 0, res |-> "fail"]
    /\ Calls(attempts)[2] = [left |-> 0, sub |-> 0, res |-> "ok"]
    /\ pc = "done"

\* ====================================================== model without rule
\* C18: a request whose model has no rule among the rules it took goes to
\* one candidate, the fallback provider of the settings with the requested
\* model, without rotation: the rotation table is not touched, and when the
\* request is answered exactly one upstream request was made, for the whole
\* candidate (no sub-provider) and without retry.
C18_NoRuleSingleAttempt ==
    (pc \in {"for", "attempt", "done"} /\ ~rule_found) =>
        /\ requested_model \notin DOMAIN Get(request_config).fallback_rules
        /\ model_fallbacks_sequence = <<1>>
        /\ CfgElement = El(fallback_provider, requested_model)
        /\ rotation_db = Absent
        /\ model_rotation = Absent
        /\ (pc = "done" =>
              /\ Len(attempts) = 1
              /\ attempts[1].left = 0
              /\ attempts[1].sub = 0)

\* the same for processes whose settings name a fallback provider
C18_WithFallbackProvider == fallback_provider # None => C18_NoRuleSingleAttempt

\* ========================================================== sub-providers
\* providers_order of the element the loop is at, <<>> when it has none
OrderList ==
    IF model_fallback_rule.providers_order = Absent THEN <<>>
    ELSE Get(model_fallback_rule.providers_order)

\* C19: with a non-empty providers_order and use_provider_order_as_fallback
\* set, a round asks the sub-providers one by one in the configured order and
\* stops at the first success, each request carrying provider.order = [that
\* sub-provider] and allow_fallbacks = false; with the flag off a round is
\* one request carrying the whole list and allow_fallbacks = false; with an
\* empty or absent list a round is one request with neither field, whatever
\* the flag.
C19_SubProviderPayloads ==
    LET k == Len(OrderList)
        flag == model_fallback_rule.use_provider_order_as_fallback
    IN  /\ \A i \in 1..Len(attempts) :
             LET a == attempts[i] IN
             /\ (i < Len(attempts) => a.res = "fail")
             /\ IF k > 0 /\ flag
                THEN /\ a.sub = ((i - 1) % k) + 1
                     /\ a.payload.provider = Some([order |-> <<OrderList[a.sub]>>])
                     /\ a.payload.allow_fallbacks = Some(FALSE)
                ELSE IF k > 0
                THEN /\ a.sub = 0
                     /\ a.payload.provider = Some([order |-> OrderList])
                     /\ a.payload.allow_fallbacks = Some(FALSE)
                ELSE /\ a.sub = 0
                     /\ a.payload.provider = Absent
                     /\ a.payload.allow_fallbacks = Absent
        /\ (pc = "for" /\ attempts # <<>> =>
              Len(attempts) = (RetryCountOrZero(model_fallback_rule) + 1)
                              * (IF k > 0 /\ flag THEN k ELSE 1))

\* two sub-providers asked in turn: the first failed, the second answered
C19_Witness ==
    /\ model_fallback_rule.use_provider_order_as_fallback
    /\ Len(OrderList) = 2
    /\ Len(attempts) = 2
    /\ attempts[1].res = "fail"
    /\ attempts[1].payload.provider = Some([order |-> <<1>>])
    /\ attempts[2].res = "ok"
    /\ attempts[2].payload.provider = Some([order |-> <<2>>])
    /\ status = 200

\* ================================================================ logging
\* C20: every payload printed for an attempt, by make_llm_request when the
\* request is sent and by the handler when the attempt has failed, has its
\* messages replaced by "<REMOVED>".
C20_LogsRedacted ==
    \A i \in 1..Len(attempts) :
        \A j \in 1..Len(attempts[i].logged) :
            attempts[i].logged[j].messages = "<REMOVED>"

\* ======================================================= mid-stream error
\* C27: once the relay of a returned stream has seen an event with a
\* top-level code, it has recorded the error (error_in_stream, with an
\* error_detail) and writes nothing more to the client: the step that sees
\* the event and every later step leave what was delivered as it is.
C27_NothingAfterMidStreamError ==
    /\ [](error_in_stream => pc \in {"streaming", "done"} /\ error_detail # None)
    /\ [][error_in_stream' => delivered' = delivered]_vars

\* ======================================================= unknown provider
\* C28: an element whose provider is not a key of the providers map the
\* request took is skipped: the step that reaches it makes no upstream
\* request and leaves the loop at the next element, and the request ends in
\* a success or, every element having failed or been skipped, in 503.
C28_UnknownProviderSkipped ==
    /\ [](pc = "done" /\ request_config # Absent /\ cand > 0 =>
            \/ status = 200
            \/ status = 503 /\ cand = Len(model_fallbacks_sequence) + 1)
    /\ [][/\ pc = "for"
          /\ cand <= Len(model_fallbacks_sequence)
          /\ (pc' # pc \/ cand' # cand)
          /\ provider_config' = Absent
          => /\ pc' = "for"
             /\ cand' = cand + 1
             /\ attempts' = <<>>
             /\ status' = status]_vars

\* ====================================================== upstream payload
\* what a key has after an overlay: the overlaid value if there is one
Overlay(original, custom) == IF custom = Absent THEN original ELSE custom

\* the headers half of C29: every request made for an element carries the
\* fixed headers with the element's custom_headers over them
C29_HeadersOverlaid ==
    \A i \in 1..Len(attempts) :
        attempts[i].headers =
            [fixed |-> "fixed", custom |-> model_fallback_rule.custom_headers]

\* C29: every upstream request made for an element (first round, retry
\* rounds, list mode, one sub-provider at a time) has as its body the
\* request's body with model set to the element's model and every key of
\* the element's custom_body_params written over it, and as its headers the
\* fixed headers with the element's custom_headers written over them.
C29_UpstreamRequestBody ==
    /\ C29_HeadersOverlaid
    /\ \A i \in 1..Len(attempts) :
         LET p == attempts[i].payload IN
         /\ p.model = model_fallback_rule.model
         /\ p.messages = RequestBody.messages
         /\ p.temperature = Overlay(RequestBody.temperature,
                                    model_fallback_rule.custom_body_params)

\* C30: no attempt writes to the body of the request or to the sequence the
\* loop walks: the body stays what the client sent, the sequence stays what
\* it was when the loop began, and every payload has the client's messages,
\* the model of its own element, and a provider order and an allow_fallbacks
\* only when its own element has a sub-provider list, the order being made
\* of that list; nothing an earlier attempt put in its payload or in its
\* log line is in it.
C30_NoLeakBetweenAttempts ==
    /\ [](/\ request_body_json = RequestBody
          /\ \A i \in 1..Len(attempts) :
               LET p == attempts[i].payload IN
               /\ p.messages = RequestBody.messages
               /\ p.model = model_fallback_rule.model
               /\ (p.provider = Absent) = (OrderList = <<>>)
               /\ (p.allow_fallbacks = Absent) = (OrderList = <<>>)
               /\ (p.provider # Absent =>
                     Get(p.provider).order
                         \in {OrderList}
                             \cup { <<OrderList[k]>> : k \in 1..Len(OrderList) }))
    /\ [][pc # "start" =>
            model_fallbacks_sequence' = model_fallbacks_sequence]_vars

\* the second element of a rotated sequence, a plain one, is at its retry:
\* its first request failed and was logged with the messages removed, after
\* the first element had been through its own requests
C30_Witness ==
    /\ model_fallbacks_sequence = <<2, 1>>
    /\ cand = 2
    /\ OrderList = <<>>
    /\ last_failed.cause # "none"
    /\ Len(attempts) = 2
    /\ attempts[1].res = "fail"
    /\ attempts[1].logged[2].messages = "<REMOVED>"
    /\ attempts[2].payload = [RequestBody EXCEPT !.model = "x"]

\* ========================================================= rotation table
\* ModelRotationDB.get_next_model_index statement by statement, for callers
\* that share the database file.  Every call opens its own connection.  The
\* sqlite3 module opens a transaction before INSERT and UPDATE only, so the
\* SELECT of a call is not in the transaction of its write and statements of
\* another caller may come in between; an open write transaction keeps the
\* other writers waiting until it is committed or rolled back, or until
\* they give up ("database is locked").  A statement that raises is an
\* input of the step.

\* total_models of a call
StLengths == -1..MaxCandidates

\* (fault) the index is not wrapped around
NextIndex_unwrapped(row, total_models) ==
    IF row = Absent THEN 0 ELSE Get(row) + 1

\* (fault) the first index handed out is 1
NextIndex_from_one(row, total_models) ==
    IF row = Absent THEN 1 ELSE (Get(row) + 1) % total_models

\* next_index for the row the SELECT found (lines 84-94)
NextIndex(row, total_models) ==
    IF row = Absent THEN 0 ELSE (Get(row) + 1) % total_models

\* the calls that have begun
StBegun ==
    Len(st_log) + Cardinality({ q \in Callers : st_call[q].pc # "idle" })

\* a call returns result; wrote says that its write was committed
StReturn(p, key, n, row, result, wrote) ==
    /\ st_call' = [st_call EXCEPT ![p] = IdleCall]
    /\ st_log' = Append(st_log, [ key |-> key, n |-> n, row |-> row,
                                  result |-> result, wrote |-> wrote ])

\* lines 68-82: the guard on total_models, connect, SELECT
StSelect(p, key, n, db_ok) ==
    /\ st_call[p].pc = "idle"
    /\ StBegun < MaxRequests
    /\ IF n <= 0 \/ ~db_ok
       THEN StReturn(p, key, n, Absent, 0, FALSE)
       ELSE /\ st_call' = [st_call EXCEPT ![p] =
                              [ pc |-> "selected", key |-> key, n |-> n,
                                row |-> st_table[key], next |-> 0 ]]
            /\ UNCHANGED st_log
    /\ UNCHANGED <<st_table, st_lock, request, store, cfg, tap, ed, client, seen>>

\* lines 84-98: INSERT or UPDATE, which opens the write transaction; the
\* INSERT of a key that has a row by now raises IntegrityError
StWrite(p, db_ok) ==
    /\ st_call[p].pc = "selected"
    /\ db_ok => st_lock = 0
    /\ LET c == st_call[p] IN
       IF ~db_ok \/ (c.row = Absent /\ st_table[c.key] # Absent)
       THEN /\ StReturn(p, c.key, c.n, c.row, 0, FALSE)
            /\ UNCHANGED st_lock
       ELSE /\ st_call' = [st_call EXCEPT ![p].pc = "written",
                                          ![p].next = NextIndex(c.row, c.n)]
            /\ st_lock' = p
            /\ UNCHANGED st_log
    /\ UNCHANGED <<st_table, request, store, cfg, tap, ed, client, seen>>

\* lines 100-110: commit and return next_index, or rollback and return 0
StCommit(p, db_ok) ==
    /\ st_call[p].pc = "written"
    /\ LET c == st_call[p] IN
       IF db_ok
       THEN /\ st_table' = [st_table EXCEPT ![c.key] = Some(c.next)]
            /\ StReturn(p, c.key, c.n, c.row, c.next, TRUE)
       ELSE /\ UNCHANGED st_table
            /\ StReturn(p, c.key, c.n, c.row, 0, FALSE)
    /\ st_lock' = 0
    /\ UNCHANGED <<request, store, cfg, tap, ed, client, seen>>

StNext ==
    \/ \E p \in Callers, key \in StKeys, n \in StLengths, db_ok \in BOOLEAN :
           StSelect(p, key, n, db_ok) /\ UNCHANGED rotation_use
    \/ \E p \in Callers, db_ok \in BOOLEAN :
           StWrite(p, db_ok) /\ UNCHANGED rotation_use
    \/ \E p \in Callers, db_ok \in BOOLEAN :
           StCommit(p, db_ok) /\ UNCHANGED rotation_use

SpecStore == Init /\ [][StNext]_vars

\* the call that returned in this step
StLast == st_log'[Len(st_log')]

\* the committed calls for one key, in the order they returned
StKeyLog(k) == SelectSeq(st_log, LAMBDA e : e.key = k /\ e.wrote)

\* C23: get_next_model_index is atomic per key under any interleaving of
\* the callers: every call that writes moves the cursor of its key one step
\* on from where it stood (no update is lost), so of the calls that wrote to
\* a key with the same n, no two among n consecutive ones returned the same
\* index; and a call leaves the rows of the other keys alone.
C23_AtomicPerKey ==
    /\ [](\A k \in StKeys :
            LET log == StKeyLog(k) IN
            \A i, j \in 1..Len(log) :
                /\ i < j
                /\ j - i < log[i].n
                /\ \A m \in i..j : log[m].n = log[i].n
                => log[i].result # log[j].result)
    /\ [][\A k \in StKeys :
            IF Len(st_log') > Len(st_log) /\ StLast.key = k /\ StLast.wrote
            THEN st_table'[k] =
                   Some(IF st_table[k] = Absent THEN 0
                        ELSE (Get(st_table[k]) + 1) % StLast.n)
            ELSE st_table'[k] = st_table[k]]_vars

\* the same for calls made one after the other: a call that runs from its
\* SELECT to its commit while no other call is under way
C23_SerialCalls ==
    [][\A k \in StKeys :
         /\ Len(st_log') > Len(st_log) /\ StLast.key = k /\ StLast.wrote
         /\ StLast.row = st_table[k]
         => st_table'[k] =
              Some(IF st_table[k] = Absent THEN 0
                   ELSE (Get(st_table[k]) + 1) % StLast.n)]_vars

\* C24: every index get_next_model_index returns is in 0..n-1 when n > 0 and
\* is 0 when n <= 0, whatever the stored index (one written under a larger n
\* included) and on the paths where sqlite raises; the index a call is about
\* to commit is in that range as well.
C24_IndexInRange ==
    /\ \A i \in 1..Len(st_log) :
         LET e == st_log[i] IN
         IF e.n > 0 THEN e.result \in 0..(e.n - 1) ELSE e.result = 0
    /\ \A p \in Callers :
         st_call[p].pc = "written" => st_call[p].next \in 0..(st_call[p].n - 1)

\* a call with n = 1 found the index 1 that a call with n = 2 had stored
C24_Witness ==
    /\ Len(st_log) = 3
    /\ st_log[2].n = 2 /\ st_log[2].wrote /\ st_log[2].result = 1
    /\ st_log[3].key = st_log[2].key
    /\ st_log[3].n = 1 /\ st_log[3].row = Some(1)
    /\ st_log[3].wrote /\ st_log[3].result = 0

\* C25 as stated: every call that returns leaves a row for its key holding
\* the value it returned, 0 when the key had no row and the stored index
\* plus one modulo n when it had one; no row is deleted.
C25_ReturnEqualsRow ==
    [][/\ \A k \in StKeys : st_table[k] # Absent => st_table'[k] # Absent
       /\ (Len(st_log') > Len(st_log) /\ StLast.n > 0 =>
             /\ st_table'[StLast.key] = Some(StLast.result)
             /\ StLast.result =
                  IF st_table[StLast.key] = Absent THEN 0
                  ELSE (Get(st_table[StLast.key]) + 1) % StLast.n)]_vars

\* C25, amended: a call whose statements all succeed (n > 0) returns 0 and
\* inserts a row holding 0 when its SELECT found no row, and returns and
\* stores the index its SELECT found plus one modulo n when it found one;
\* the value it returns is the value its commit leaves in the row; a call
\* that does not commit returns 0 and changes no row; a row changes only by
\* the commit of a call for its key, and no row is deleted.
C25_InsertOrAdvance ==
    /\ [](\A i \in 1..Len(st_log) :
            LET e == st_log[i] IN
            IF e.wrote
            THEN /\ e.n > 0
                 /\ e.result = IF e.row = Absent THEN 0
                               ELSE (Get(e.row) + 1) % e.n
            ELSE e.result = 0)
    /\ [][\A k \in StKeys :
            /\ (st_table[k] # Absent => st_table'[k] # Absent)
            /\ (st_table'[k] # st_table[k] =>
                  /\ Len(st_log') = Len(st_log) + 1
                  /\ StLast.key = k
                  /\ StLast.wrote
                  /\ st_table'[k] = Some(StLast.result)
                  /\ (st_table[k] = Absent => StLast.result = 0))
            /\ (Len(st_log') > Len(st_log) /\ StLast.key = k /\ StLast.wrote
                  => st_table'[k] = Some(StLast.result))]_vars

\* a key's first call inserted 0 and its second stored and returned 1, a
\* call for the other key having failed in between
C25_Witness ==
    /\ Len(st_log) = 3
    /\ st_log[1] = [key |-> "k1", n |-> 2, row |-> Absent, result |-> 0,
                    wrote |-> TRUE]
    /\ st_log[2].key = "k2" /\ ~st_log[2].wrote /\ st_log[2].n > 0
    /\ st_log[3] = [key |-> "k1", n |-> 2, row |-> Some(0), result |-> 1,
                    wrote |-> TRUE]
    /\ st_table["k1"] = Some(1)
    /\ st_table["k2"] = Absent

\* ======================================================= storage failure
\* C26: a request in which sqlite raises during get_next_model_index gets
\* index 0 instead of an error: the step that receives it leaves the row as
\* it was, and the request goes into the candidate loop with the candidates
\* in their configured order, from the first one.
C26_StorageFailureDegrades ==
    /\ [](\A i \in 1..Len(rot_log) : ~rot_log[i].ok => rot_log[i].start = 0)
    /\ [][Len(rot_log') > Len(rot_log) /\ ~rot_log'[Len(rot_log')].ok =>
            /\ model_rotation' = model_rotation
            /\ model_fallbacks_sequence' =
                 [i \in 1..rot_log'[Len(rot_log')].n |-> i]
            /\ pc' = "for"
            /\ cand' = 1
            /\ status' = 0]_vars

\* the row holds 1 after two requests; sqlite fails in the third, which is
\* answered by its first candidate, and the row still holds 1
C26_Witness ==
    /\ Len(rot_log) = 3
    /\ rot_log[1].ok /\ rot_log[2].ok /\ ~rot_log[3].ok
    /\ rot_log[2].start = 1
    /\ model_rotation = Some(1)
    /\ model_fallbacks_sequence = <<1, 2>>
    /\ pc = "done"
    /\ status = 200
    /\ cand = 1

\* ================================================= configuration editor
\* api/v1/rules_editor.py: the two POST endpoints of the editor, over the
\* ConfigLoader of the process and the two files on disk.
\* What json5.loads and the pydantic models make of a posted text: not
\* JSON5, a value that is not a list, a list holding an item that is not an
\* object, a list holding an object the schema rejects, or a list of
\* objects the schema accepts
InvalidBodies == {"malformed", "not_list", "not_dict", "bad_entry"}

RulesBodies ==
    [kind : InvalidBodies, rules : {NoRules}]
    \cup [kind : {"list"}, rules : RulesMaps]

ProvidersBodies ==
    [kind : InvalidBodies, providers : {NoProviders}]
    \cup [kind : {"list"}, providers : ProvidersMaps]

\* the try block up to the validation, and the two except clauses: json5
\* raises ValueError, the HTTPException(400) for a value that is not a list
\* is raised inside the try, ** on an item that is not a mapping raises
\* TypeError, and except Exception turns all three into HTTPException(500);
\* only pydantic's ValidationError is answered with 400
RejectedStatus(kind) == IF kind = "bad_entry" THEN 400 ELSE 500

\* (fault) the answer does not wait for what the reload returned
SavedStatus_always_200(result, after) == 200

\* the answer once the file is written: what the reload returned decides;
\* SystemExit passes every except clause, and the process ends without an
\* answer or the server answers 500
SavedStatus(result, after) ==
    IF result = "True" THEN 200
    ELSE IF after = "exited" THEN 0
    ELSE 500

\* ConfigLoader(), load_providers(), load_fallback_rules() on the files as
\* they are when the process starts
EdStartup(fp, pdoc, rdoc) ==
    /\ proc = "boot"
    /\ LET lp == load_providers(providers_config, pdoc, fp)
           lr == load_fallback_rules(lp.providers_config, rdoc, pdoc, fp)
       IN  /\ ~lp.exit
           /\ ~lr.exit
           /\ providers_config' = lr.providers_config
           /\ fallback_rules' = lr.fallback_rules
    /\ fallback_provider' = fp
    /\ providers_file' = pdoc
    /\ rules_file' = rdoc
    /\ proc' = "up"
    /\ UNCHANGED <<request_config, requested_model, provider_config, reloads,
                   reload_result, request, store, tap, rs, edit, client,
                   obs>>

\* POST /v1/config/models-rules
save_models_rules(body, ends) ==
    /\ proc = "up"
    /\ IF body.kind \in InvalidBodies
       THEN /\ edit' = [op |-> "rules", body |-> body.kind,
                        status |-> RejectedStatus(body.kind),
                        wrote |-> FALSE, reloaded |-> FALSE]
            /\ UNCHANGED <<proc, providers_config, fallback_rules, rules_file,
                           reloads, reload_result>>
       ELSE /\ reloads < MaxReloads
            /\ rules_file' = body
            /\ LET r == reload_fallback_rules(providers_config, fallback_rules,
                                              body, providers_file,
                                              fallback_provider)
               IN  /\ providers_config' = r.providers_config
                   /\ fallback_rules' = r.fallback_rules
                   /\ reload_result' = [op |-> "rules", result |-> r.result]
                   /\ proc' = AfterCall(r.result, ends)
                   /\ edit' = [op |-> "rules", body |-> body.kind,
                               status |-> SavedStatus(r.result,
                                                      AfterCall(r.result, ends)),
                               wrote |-> TRUE, reloaded |-> TRUE]
            /\ reloads' = reloads + 1
    /\ UNCHANGED <<fallback_provider, providers_file, request_config,
                   requested_model, provider_config, request, store, tap, rs,
                   client, obs>>

\* POST /v1/config/providers
save_providers_config(body) ==
    /\ proc = "up"
    /\ IF body.kind \in InvalidBodies
       THEN /\ edit' = [op |-> "providers", body |-> body.kind,
                        status |-> RejectedStatus(body.kind),
                        wrote |-> FALSE, reloaded |-> FALSE]
            /\ UNCHANGED <<providers_config, providers_file, reloads,
                           reload_result>>
       ELSE /\ reloads < MaxReloads
            /\ providers_file' = body
            /\ LET r == reload_providers_config(providers_config, body,
                                                fallback_provider)
               IN  /\ providers_config' = r.providers_config
                   /\ reload_result' = [op |-> "providers", result |-> r.result]
                   /\ edit' = [op |-> "providers", body |-> body.kind,
                               status |-> SavedStatus(r.result, "up"),
                               wrote |-> TRUE, reloaded |-> TRUE]
            /\ reloads' = reloads + 1
    /\ UNCHANGED <<proc, fallback_provider, fallback_rules, rules_file,
                   request_config, requested_model, provider_config, request,
                   store, tap, rs, client, obs>>

EdNext ==
    \/ \E fp \in {None, "p1"}, pdoc \in ProvidersDocs, rdoc \in RulesDocs :
           EdStartup(fp, pdoc, rdoc)
    \/ \E body \in RulesBodies, ends \in BOOLEAN : save_models_rules(body, ends)
    \/ \E body \in ProvidersBodies : save_providers_config(body)

SpecEditor == Init /\ [][EdNext]_vars

\* C21: a body that fails validation (not parseable, not a list, or with an
\* element violating the schema) is answered with 400, and nothing is
\* written or reloaded for it; what is written is a body that validated,
\* and the reload follows the write.
C21_InvalidBody400 ==
    edit.op # "none" =>
        /\ edit.body \in InvalidBodies =>
               edit.status = 400 /\ ~edit.wrote /\ ~edit.reloaded
        /\ edit.wrote => edit.body = "list" /\ edit.reloaded

\* the part the handlers keep: a rejected body changes neither the file nor
\* the loader, and each file holds what startup found or the last body that
\* validated
C21_OnlyValidWritten ==
    /\ [](edit.body \in InvalidBodies => ~edit.wrote /\ ~edit.reloaded)
    /\ [](edit.wrote => edit.body = "list" /\ edit.reloaded)
    /\ [][edit'.body \in InvalidBodies /\ edit' # edit =>
            UNCHANGED <<rules_file, providers_file, providers_config,
                        fallback_rules, proc>>]_vars

\* ===================================================== client disconnect
\* The client of the request closes its connection while chat_completions
\* is in the candidate loop: at the head of the for loop, awaiting
\* make_llm_request, or in asyncio.sleep.  Neither chat_completions nor
\* make_llm_request reads request.is_disconnected() or receive(), and the
\* server does not cancel an endpoint whose response has not started, so the
\* handler's own state is as it was.
ClientDisconnects ==
    /\ client = "connected"
    /\ pc \in {"for", "attempt", "sleep"}
    /\ client' = "gone"
    /\ UNCHANGED <<ctl, req, model_fallback_rule, errs, relay, store, cfg, tap,
                   rs, ed, obs>>

CancelNext ==
    \/ Next
    \/ ClientDisconnects

SpecCancel == Init /\ [][CancelNext]_vars

\* C22: once the client is gone no step of the request sends another
\* upstream request (next candidate, next sub-provider or retry), and no
\* step makes the request a success.
C22_DisconnectStopsAttempts ==
    [][client = "gone" =>
          /\ ~(pc' = "attempt" /\ attempts' # attempts)
          /\ cand' = cand
          /\ status' = 200 => status = 200]_vars

\* ================================================== the streamed relay
\* One streamed request over a rule of up to MaxCandidates plain elements,
\* with the chunks that are not UTF-8 kept track of: undecodable holds the
\* positions in received of the chunks whose decode('utf-8') raises.
others == <<store, cfg, tap, rs, ed, client, answer, usage_call, rotation_use>>

\* the positions after a step that read chunk c (received starts again with
\* every attempt)
Undecodable(c) ==
    IF received' = <<>> THEN {}
    ELSE IF received' # received /\ ~c.utf8
         THEN undecodable \cup {Len(received')}
         ELSE undecodable

\* the positions after a step that read no chunk
Kept == IF received' = <<>> THEN {} ELSE undecodable

RlReceive(n) ==
    /\ Receive("rule", TRUE, n, FALSE, Absent, TRUE)
    /\ undecodable' = Kept
    /\ UNCHANGED others

RlCandidate ==
    /\ NextCandidate(PlainRule)
    /\ undecodable' = Kept
    /\ UNCHANGED others

RlAllFailed ==
    /\ AllFailed
    /\ undecodable' = Kept
    /\ UNCHANGED others

RlStreamOpens(resp) ==
    /\ StreamOpens(resp)
    /\ undecodable' = Kept
    /\ UNCHANGED others

RlPrimeChunk(c) ==
    /\ PrimeChunk(c)
    /\ undecodable' = Undecodable(c)
    /\ UNCHANGED others

RlPrimeEnds(how) ==
    /\ PrimeEnds(how)
    /\ undecodable' = Kept
    /\ UNCHANGED others

RlRelayChunk(c) ==
    /\ RelayChunk(c)
    /\ undecodable' = Undecodable(c)
    /\ UNCHANGED others

RlRelayEnds(how) ==
    /\ RelayEnds(how)
    /\ undecodable' = Kept
    /\ UNCHANGED others

RlNext ==
    \/ \E n \in 1..MaxCandidates : RlReceive(n)
    \/ RlCandidate
    \/ RlAllFailed
    \/ \E resp \in StreamOpenings : RlStreamOpens(resp)
    \/ \E c \in Chunks : RlPrimeChunk(c)
    \/ \E how \in {"closed", "RequestError"} : RlPrimeEnds(how)
    \/ \E c \in Chunks : RlRelayChunk(c)
    \/ \E how \in {"closed", "RequestError"} : RlRelayEnds(how)

SpecRelay == Init /\ [][RlNext]_vars

InDelivered(t) == \E j \in 1..Len(delivered) : delivered[j] = t

\* C31: a chunk that is not UTF-8 leaves the attempt that read it
\* unclassified (in progress, or committed by another chunk), and its bytes
\* are in what the client is sent once the stream is returned, wherever in
\* the stream the chunk came.
C31_UndecodableForwarded ==
    /\ undecodable # {} =>
          /\ pc \in {"attempt", "streaming", "done"}
          /\ attempts[Len(attempts)].res # "fail"
    /\ status = 200 => \A i \in undecodable : InDelivered(received[i])

\* the part the relay keeps: after the stream was returned, a chunk that is
\* not UTF-8 is sent on as it came
C31_ForwardedAfterCommit ==
    status = 200 =>
        \A i \in undecodable :
            i > first_real_idx /\ first_real_idx > 0 => InDelivered(received[i])

\* C32: a segment that starts with "data: {" and does not parse is data, not
\* an error: no attempt fails on its first real event being unparsable, and
\* every chunk read from the first real event on, parsable or not, is in
\* what the client is sent.
C32_UnparsableIsData ==
    /\ last_failed.cause # "first_event"
    /\ is_streaming /\ status = 200 /\ first_real_idx > 0 =>
          \A i \in first_real_idx..Len(received) : InDelivered(received[i])

\* a streamed attempt that has read chunks and no "data: {" segment yet
NoiseSeen ==
    /\ pc = "attempt"
    /\ is_streaming
    /\ opened
    /\ received # <<>>
    /\ first_real_idx = 0

\* the step in which the attempt in flight fails on an error in its first
\* real event
FailsOnErrorEvent ==
    /\ Len(attempts') >= Len(attempts)
    /\ attempts'[Len(attempts)].res = "fail"
    /\ last_failed'.cause = "first_event_error"

\* C33: chunks without a "data: {" segment leave the attempt waiting for its
\* first real event, and after any such chunks that event decides as it
\* would have alone: an error in it makes the attempt a failure after which
\* the request goes on to the next sub-provider, retry or candidate (503
\* when none is left), a good one makes the attempt the response.
C33_FirstRealEventDecides ==
    /\ [][pc = "attempt" /\ Len(received') > Len(received)
            /\ first_real_idx' = 0 /\ status' = 0 =>
               pc' = "attempt" /\ UNCHANGED <<attempts, status, cand>>]_vars
    /\ [][NoiseSeen /\ FailsOnErrorEvent =>
               /\ pc' \in {"attempt", "sleep", "for"}
               /\ status' = 0
               /\ delivered' = <<>>]_vars
    /\ [][NoiseSeen /\ status' = 200 /\ first_real_idx' > 0 =>
               /\ first_event' = "ok"
               /\ pc' = "streaming"
               /\ attempts'[Len(attempts')].res = "ok"]_vars

\* the same without the steps after the failure: the classification of the
\* attempt is that of its first real event
C33_Classification ==
    /\ [][pc = "attempt" /\ Len(received') > Len(received)
            /\ first_real_idx' = 0 /\ status' = 0 =>
               pc' = "attempt" /\ UNCHANGED <<attempts, status, cand>>]_vars
    /\ [][NoiseSeen /\ FailsOnErrorEvent =>
               /\ status' # 200
               /\ delivered' = <<>>]_vars
    /\ [][NoiseSeen /\ status' = 200 /\ first_real_idx' > 0 =>
               /\ first_event' = "ok"
               /\ pc' = "streaming"
               /\ attempts'[Len(attempts')].res = "ok"]_vars

\* ================================================ the buffered attempt
\* One request that is not streamed, with the upstream's answer to the POST
\* that just returned kept beside the handler's state.
BfReceive(body, n) ==
    /\ Receive(body, FALSE, n, FALSE, Absent, TRUE)
    /\ answer' = NoAnswer
    /\ UNCHANGED <<store, cfg, tap, rs, ed, client, undecodable, usage_call,
                 rotation_use>>

BfCandidate(rule) ==
    /\ NextCandidate(rule)
    /\ answer' = NoAnswer
    /\ UNCHANGED <<store, cfg, tap, rs, ed, client, undecodable, usage_call,
                 rotation_use>>

BfAllFailed ==
    /\ AllFailed
    /\ answer' = NoAnswer
    /\ UNCHANGED <<store, cfg, tap, rs, ed, client, undecodable, usage_call,
                 rotation_use>>

BfPostReturns(resp) ==
    /\ PostReturns(resp)
    /\ answer' = resp
    /\ UNCHANGED <<store, cfg, tap, rs, ed, client, undecodable, usage_call,
                 rotation_use>>

BfSleepReturns ==
    /\ SleepReturns
    /\ answer' = NoAnswer
    /\ UNCHANGED <<store, cfg, tap, rs, ed, client, undecodable, usage_call,
                 rotation_use>>

BfNext ==
    \/ \E body \in {"no_rule", "rule"}, n \in 1..MaxCandidates : BfReceive(body, n)
    \/ \E rule \in FallbackModelRule \cup SyntheticFallbackRule : BfCandidate(rule)
    \/ BfAllFailed
    \/ \E resp \in UpstreamResponses : BfPostReturns(resp)
    \/ BfSleepReturns

SpecBuffered == Init /\ [][BfNext]_vars

\* C34: the buffered attempt whose POST just returned is a failure exactly
\* when the request failed, the status is 400 or more, the body is not JSON,
\* or the JSON has a top-level "error" or "detail"; any other answer is
\* returned at once with status 200.
C34_BufferedClassification ==
    [][answer' # NoAnswer =>
         IF \/ answer'.status = 0
            \/ answer'.status >= 400
            \/ ~answer'.valid
            \/ answer'.keys \cap {"error", "detail"} # {}
         THEN /\ attempts'[Len(attempts)].res = "fail"
              /\ status' # 200
         ELSE /\ attempts' = SetLast(attempts, "ok")
              /\ status' = 200
              /\ pc' = "done"]_vars

\* the same for the answers whose JSON is not empty
C34_NonEmptyJson ==
    [][answer' # NoAnswer /\ ~(answer'.valid /\ answer'.keys = {}) =>
         IF \/ answer'.status = 0
            \/ answer'.status >= 400
            \/ ~answer'.valid
            \/ answer'.keys \cap {"error", "detail"} # {}
         THEN /\ attempts'[Len(attempts)].res = "fail"
              /\ status' # 200
         ELSE /\ attempts' = SetLast(attempts, "ok")
              /\ status' = 200
              /\ pc' = "done"]_vars

\* ============================================== the log of a stream
\* C35: the record of a streamed response is written after every chunk the
\* response yielded was processed: once the thread has ended no chunk is
\* left on its queue, and a record written at its end carries the counters
\* the thread holds, those of the last usage object among the chunks.
C35_AllChunksProcessed ==
    is_streaming /\ tap_thread = "ended" =>
        /\ tap_queue = <<>>
        /\ records # <<>> => records[Len(records)] = tap_tokens_usage

\* the chunks the thread did take are processed in the order they were
\* yielded, and a later usage object replaces an earlier one
C35_LastUsageWins ==
    [][tap_queue # <<>> /\ tap_queue' = Tail(tap_queue)
         /\ Head(tap_queue).utf8
         /\ Len(Head(tap_queue).segs) = 1
         /\ Head(tap_queue).segs[1].json /\ Head(tap_queue).segs[1].valid
         /\ "usage" \in Head(tap_queue).segs[1].keys =>
            tap_tokens_usage' = get_token_usage(Head(tap_queue).segs[1].shape)]_vars

\* ====================================================== token counters
\* get_token_usage (chat_logging.py 186-222) on the "usage" value of a body
\* or event.  A dictionary is a function from its keys.
Put(d, k, v) == [x \in DOMAIN d \cup {k} |-> IF x = k THEN v ELSE d[x]]

EmptyDict == [x \in {} |-> 0]

\* the value of a key that holds JSON null, and one that holds an object
Null == [null |-> TRUE, fields |-> EmptyDict]

Object(d) == [null |-> FALSE, fields |-> d]

\* a details object: left out, null, empty, or holding the counter
Details(key) ==
    {Absent, Some(Null), Some(Object(EmptyDict))}
    \cup { Some(Object(Put(EmptyDict, key, n))) : n \in 0..MaxTokens }

\* the usage objects get_token_usage is called with, any of the counters
\* left out
Usages ==
    [ prompt_tokens : {Absent, Some(MaxTokens)},
      completion_tokens : {Absent} \cup {Some(n) : n \in {0, MaxTokens + 1}},
      total_tokens : {Some(2 * MaxTokens + 1)},
      cost : {Absent, Some(1)},
      completion_tokens_details : Details("reasoning_tokens"),
      prompt_tokens_details : Details("cached_tokens") ]

\* the dictionary get_token_usage starts from (lines 190-197)
Defaults ==
    [ x \in {"prompt_tokens", "completion_tokens", "total_tokens",
             "reasoning_tokens", "cached_tokes", "cost"} |-> 0 ]

\* if key in usage: tokens_usage[key] = usage[key]
Copied(t, usage, key) ==
    IF usage[key] = Absent THEN t ELSE Put(t, key, Get(usage[key]))

\* lines 216-217
Reduced(t) ==
    IF t["reasoning_tokens"] > 0
    THEN Put(t, "completion_tokens",
             t["completion_tokens"] - t["reasoning_tokens"])
    ELSE t

\* lines 212-214 and on; "key in None" raises TypeError, which the except
\* clause logs, and the dictionary is returned as it is by then
FromPromptDetails(t, usage) ==
    LET d == usage.prompt_tokens_details IN
    IF d = Absent THEN Reduced(t)
    ELSE IF Get(d).null THEN t
    ELSE IF "cached_tokens" \in DOMAIN Get(d).fields
         THEN Reduced(Put(t, "cached_tokens", Get(d).fields["cached_tokens"]))
         ELSE Reduced(t)

\* lines 209-211 and on
FromCompletionDetails(t, usage) ==
    LET d == usage.completion_tokens_details IN
    IF d = Absent THEN FromPromptDetails(t, usage)
    ELSE IF Get(d).null THEN t
    ELSE IF "reasoning_tokens" \in DOMAIN Get(d).fields
         THEN FromPromptDetails(
                  Put(t, "reasoning_tokens",
                      Get(d).fields["reasoning_tokens"]), usage)
         ELSE FromPromptDetails(t, usage)

\* get_token_usage({"usage": usage})
TokenUsage(usage) ==
    FromCompletionDetails(
        Copied(Copied(Copied(Copied(Defaults, usage, "prompt_tokens"),
                             usage, "completion_tokens"),
                      usage, "total_tokens"),
               usage, "cost"),
        usage)

\* one call
GetTokenUsage(usage) ==
    /\ usage_call' = <<[usage |-> usage, result |-> TokenUsage(usage)]>>
    /\ UNCHANGED <<request, store, cfg, tap, rs, ed, client, undecodable, answer,
                   rotation_use>>

TokensNext == \E usage \in Usages : GetTokenUsage(usage)

SpecTokens == Init /\ [][TokensNext]_vars

\* the counter a details object gives: 0 when the object or the counter is
\* left out
Given(d, key) ==
    IF d = Absent THEN 0
    ELSE IF Get(d).null THEN 0
    ELSE IF key \in DOMAIN Get(d).fields THEN Get(d).fields[key] ELSE 0

\* C36: the record made of a usage object has all six counters;
\* cached_tokens and reasoning_tokens are those of the details objects, 0
\* when left out, and completion_tokens is the usage's less the reasoning
\* tokens.
C36_UsageNormalized ==
    usage_call # NoUsageCall =>
        LET u == usage_call[1].usage
            r == usage_call[1].result
            reasoning == Given(u.completion_tokens_details, "reasoning_tokens")
            completion == IF u.completion_tokens = Absent THEN 0
                          ELSE Get(u.completion_tokens)
        IN  /\ {"prompt_tokens", "completion_tokens", "total_tokens",
                "reasoning_tokens", "cached_tokens", "cost"} \subseteq DOMAIN r
            /\ r["cached_tokens"] = Given(u.prompt_tokens_details, "cached_tokens")
            /\ r["reasoning_tokens"] = reasoning
            /\ r["completion_tokens"] =
                 IF reasoning > 0 THEN completion - reasoning ELSE completion

\* the same for the usage objects that carry both details objects, each
\* with its counter
C36_WithBothDetails ==
    usage_call # NoUsageCall =>
        LET u == usage_call[1].usage
            r == usage_call[1].result
            reasoning == Given(u.completion_tokens_details, "reasoning_tokens")
            completion == IF u.completion_tokens = Absent THEN 0
                          ELSE Get(u.completion_tokens)
        IN  (/\ u.completion_tokens_details
                    \notin {Absent, Some(Null), Some(Object(EmptyDict))}
             /\ u.prompt_tokens_details
                    \notin {Absent, Some(Null), Some(Object(EmptyDict))}) =>
            /\ {"prompt_tokens", "completion_tokens", "total_tokens",
                "reasoning_tokens", "cached_tokens", "cost"} \subseteq DOMAIN r
            /\ r["cached_tokens"] = Given(u.prompt_tokens_details, "cached_tokens")
            /\ r["reasoning_tokens"] = reasoning
            /\ r["completion_tokens"] =
                 IF reasoning > 0 THEN completion - reasoning ELSE completion

\* ========================================================= termination
\* The request under the assumption that what it awaits returns: every
\* upstream request is answered or fails, every stream ends, every sleep
\* is over.
SpecLive == Init /\ [][Next]_vars /\ WF_vars(Next)

\* C37: the request ends; for each candidate at most (retry_count + 1) x
\* max(1, sub-providers) upstream requests are made; and it ends with a
\* success, 400 or 503.
C37_TerminatesWithinBound ==
    /\ <>(pc = "done")
    /\ [](Len(attempts) <= (RetryCountOrZero(model_fallback_rule) + 1)
                               * Max(1, Len(SubOrder(model_fallback_rule))))
    /\ [](pc = "done" => status \in {200, 400, 503})

\* the same without the statuses the request may end with
C37_Terminates ==
    /\ <>(pc = "done")
    /\ [](Len(attempts) <= (RetryCountOrZero(model_fallback_rule) + 1)
                               * Max(1, Len(SubOrder(model_fallback_rule))))

\* ====================================================== end of a stream
\* C38: a returned stream that its upstream closes, no error event having
\* come on it, ends with the response generator finishing: nothing is
\* raised, whether a usage object was among its events or not.
C38_CleanEnd ==
    [][pc = "streaming" /\ pc' = "done" /\ ~error_in_stream
         /\ relay_result' # "RequestError" => relay_result' = "ok"]_vars

\* the same for the streams that carried a usage object after their first
\* chunk
C38_CleanEndWithUsage ==
    [][pc = "streaming" /\ pc' = "done" /\ ~error_in_stream
         /\ tokens_usage = "bound"
         /\ relay_result' # "RequestError" => relay_result' = "ok"]_vars

\* ==================================================== disk and memory
\* a step of one of the two POST endpoints
EditorStep ==
    /\ proc = "up"
    /\ \/ edit' # edit
       \/ rules_file' # rules_file
       \/ providers_file' # providers_file

\* the loader holds what the two files hold
InMemoryIsOnDisk ==
    /\ fallback_rules = rules_file.rules
    /\ providers_config = providers_file.providers

\* C39: a file on disk changes only in a POST that ends in a successful
\* reload, so that while the process runs the loader holds what the files
\* hold.
C39_DiskReloads ==
    /\ [](proc = "up" => InMemoryIsOnDisk)
    /\ [][EditorStep /\ (rules_file' # rules_file
                           \/ providers_file' # providers_file) =>
             edit'.status = 200]_vars

\* C39 as the handlers have it: a body that fails validation leaves both
\* files as they are; a body that passes the schema is written to its file
\* (the other file stays) before the reload; the POST is answered 200 only
\* when the reload returned True, and then the loader holds what that file
\* holds; otherwise the file stays written, with the answer 500 or none.
C39_WrittenBeforeReload ==
    [][EditorStep =>
         /\ edit'.body \in InvalidBodies =>
               UNCHANGED <<rules_file, providers_file>>
         /\ edit'.body = "list" =>
               /\ edit'.wrote
               /\ edit'.op = "rules" =>
                     rules_file'.kind = "list" /\ UNCHANGED providers_file
               /\ edit'.op = "providers" =>
                     providers_file'.kind = "list" /\ UNCHANGED rules_file
         /\ edit'.status = 200 =>
               /\ edit'.wrote
               /\ reload_result'.result = "True"
               /\ edit'.op = "rules" => fallback_rules' = rules_file'.rules
               /\ edit'.op = "providers" =>
                     providers_config' = providers_file'.providers
         /\ edit'.wrote /\ edit'.status # 200 =>
               /\ edit'.status \in {0, 500}
               /\ reload_result'.result # "True"
               /\ fallback_rules' = fallback_rules]_vars

\* rules naming a provider the loader does not have were posted: the file
\* holds them, the loader holds the rules it had, the answer was 500
C39_Witness ==
    /\ proc = "up"
    /\ edit.op = "rules"
    /\ edit.wrote
    /\ edit.status = 500
    /\ rules_file.kind = "list"
    /\ rules_file.rules # fallback_rules
    /\ \E g \in DOMAIN rules_file.rules :
          \E i \in 1..Len(rules_file.rules[g].fallback_models) :
             rules_file.rules[g].fallback_models[i].provider
                 \notin DOMAIN providers_config

\* ================================================ who calls the table
\* chat.py 43-80 in front of get_next_model_index: the requests of callers
\* that share the database file, each with the rule its model has.

\* (fault) a rule of one candidate is rotated too
Rotates_single(kind, rotate_models, n) == kind = "rule" /\ rotate_models

\* if rotate_models and len(model_fallbacks_sequence) > 1 (chat.py 67); a
\* request answered 400 does not come this far, a model without a rule has
\* rotate_models = False
Rotates(kind, rotate_models, n) == kind = "rule" /\ rotate_models /\ n > 1

\* one request up to the reorder of its sequence
StRequest(p, key, kind, rotate_models, n, db_ok) ==
    /\ kind # "rule" => ~rotate_models /\ n = 1
    /\ rotation_use' = [ kind |-> kind, rotate_models |-> rotate_models,
                         n |-> n, called |-> Rotates(kind, rotate_models, n) ]
    /\ IF Rotates(kind, rotate_models, n)
       THEN StSelect(p, key, n, db_ok)
       ELSE /\ st_call[p].pc = "idle"
            /\ UNCHANGED <<rs, request, store, cfg, tap, ed, client, seen>>

\* a rule of one candidate and a rule of two
UseLengths == {1, 2}

UseNext ==
    \/ \E p \in Callers, key \in StKeys,
          kind \in {"rejected", "no_rule", "rule"}, rotate_models \in BOOLEAN,
          n \in UseLengths, db_ok \in BOOLEAN :
           StRequest(p, key, kind, rotate_models, n, db_ok)
    \/ \E p \in Callers, db_ok \in BOOLEAN :
           StWrite(p, db_ok) /\ UNCHANGED rotation_use
    \/ \E p \in Callers, db_ok \in BOOLEAN :
           StCommit(p, db_ok) /\ UNCHANGED rotation_use

SpecStoreUse == Init /\ [][UseNext]_vars

\* C40: the row of a key changes only in the commit of a call made for that
\* key; and a request whose rule does not rotate, has a single candidate,
\* whose model has no rule or that was answered 400 makes no call: it
\* leaves the table, its lock and the calls under way as they are.
C40_OnlyOwnRow ==
    [][/\ rotation_use'.called =>
             /\ rotation_use'.kind = "rule"
             /\ rotation_use'.rotate_models
             /\ rotation_use'.n > 1
       /\ \A k \in StKeys :
             st_table'[k] # st_table[k] =>
                \E p \in Callers :
                   /\ st_call[p].pc = "written"
                   /\ st_call[p].key = k
                   /\ st_call'[p].pc = "idle"
                   /\ st_log' = Append(st_log, StLast)
                   /\ StLast.key = k /\ StLast.wrote
       /\ rotation_use' # rotation_use /\ ~rotation_use'.called =>
             UNCHANGED rs
       /\ (\E p \in Callers : st_call[p].pc = "idle" /\ st_call'[p].pc # "idle") =>
             rotation_use'.called]_vars

\* a rotating request for k1 moved k1's row to 1 and k2 has no row; the
\* request that came last has a rotating rule of one candidate and made no
\* call
C40_Witness ==
    /\ rotation_use = [kind |-> "rule", rotate_models |-> TRUE, n |-> 1,
                       called |-> FALSE]
    /\ Len(st_log) = 2
    /\ st_table["k1"] = Some(1)
    /\ st_table["k2"] = Absent
    /\ \A p \in Callers : st_call[p].pc = "idle"
====
